---- MODULE Spec2Model ----
(***************************************************************************)
(* A model of the two lock-free ring buffers of zaplog:                    *)
(*   pf::BoundedSpscZeroCopy  (src/src/pt/pf_bounded_spsc_zero_copy.h)      *)
(*   pf::MpscRingBuffer       (src/src/pt/pf_mpsc_ringbuffer.h)             *)
(* Every atomic load, compare-exchange and wait of the code is one step of *)
(* the thread that executes it; atomics are sequentially consistent.       *)
(* std::atomic::wait is modelled by a check step (the atomic comparison    *)
(* with the old value) and a sleeping position left only through a notify. *)
(* A compare_exchange_weak that fails spuriously is a stuttering step.     *)
(* The statistics counters (m_write_stats) are left out: no operation      *)
(* reads them to decide anything.                                          *)
(***************************************************************************)
EXTENDS Integers, Sequences, FiniteSets, TLC

\* ------------------------------------------------------------------ bounds
\* queueSize given to the BoundedSpscZeroCopy constructor
kMaxSize == 4
\* total number of elements the SPSC producer commits in one run
MaxBytes == 10
\* the same in the runs with a thread that calls cancel()
CancelBytes == 4
\* max_size, the capacity template argument of MpscRingBuffer
max_size == 2
\* number of producer threads of the MPSC ring
NumProducers == 2
\* number of calls of push/tryPush in one run
MaxPush == 4
\* the same in the runs with a thread that calls cancel()
CancelPush == 2
\* length of the list of chunk sizes the two sides of the SPSC ring go through
NumChunks == 6

NULL == -1

VARIABLES
    \* ---- BoundedSpscZeroCopy
    m_write_ctx,      \* std::atomic<uint64_t>: <<write_index, read_end_index>>
    m_read_index,     \* std::atomic<int32_t>
    m_write_im,       \* producer scratch
    m_read_im,        \* consumer scratch
    m_buffer,         \* m_buffer[0 .. kMaxSize-1]
    wpc, wl, wret,    \* producer thread: position, locals, last result
    rpc, rl, rret,    \* consumer thread: position, locals, last result
    cpc, cl,          \* thread inside cancel(): position, locals
    cancelReturned,   \* a call of cancel() has returned
    wafter, rafter,   \* the side's latest call started after a cancel() had returned
    whit, rhit,       \* cancel() stored the sentinel in the word the side's call was blocked on
    wlog, rlog,       \* elements committed by the producer / by the consumer
    budget,           \* number of elements the producer may commit in this run
    \* ---- MpscRingBuffer (its atomics are prefixed mp_: the class shares the
    \* names m_read_index and m_buffer with BoundedSpscZeroCopy)
    mp_write_index,        \* std::atomic<int64_t> m_write_index
    mp_read_max_index,     \* std::atomic<int64_t> m_read_max_index
    mp_read_index,         \* std::atomic<int64_t> m_read_index
    m_read_index_expected, \* consumer scratch
    m_read_index_desired,  \* consumer scratch
    mp_buffer,             \* ElementType m_buffer[max_size]
    ppc, pl,               \* producer threads: position, locals
    pret,                  \* pret[p]: what the latest push/tryPush of p returned
                           \* (FALSE while it is in progress)
    pseq,                  \* pseq[p]: number of pushes of p that returned true
    qpc, ql,               \* consumer thread: position, locals
    qret,                  \* what the latest peek/tryPeek returned (0 while in progress)
    kpc, kl,               \* thread inside cancel(): position, locals
    mcancelReturned,       \* a call of cancel() has returned
    pafter, qafter,        \* the thread's latest push/tryPush (peek/tryPeek) started
                           \* after a cancel() had returned
    reserved,              \* elements in the order of their reservation CAS
    published,             \* elements in the order of their publish CAS
    delivered,             \* elements in the order the consumer committed them
    owner,                 \* owner[i]: the element of the latest reservation of cell i
    pbudget,               \* number of calls of push/tryPush left in this run
    \* ---- callers
    sizeList               \* the chunk sizes both sides of the SPSC ring go through,
                           \* in the runs where they do; <<>> in the others

svars == <<m_write_ctx, m_read_index, m_write_im, m_read_im, m_buffer,
           wpc, wl, wret, rpc, rl, rret, cpc, cl, cancelReturned, wafter, rafter,
           whit, rhit, wlog, rlog, budget>>

mvars == <<mp_write_index, mp_read_max_index, mp_read_index,
           m_read_index_expected, m_read_index_desired, mp_buffer,
           ppc, pl, pret, pseq, qpc, ql, qret, kpc, kl, mcancelReturned,
           pafter, qafter, reserved, published, delivered, owner, pbudget>>

vars == <<svars, mvars, sizeList>>

\* ------------------------------------------------------- pure functions
\* two int32 packed into one uint64 (memcpy): the pair itself
encode_ctx(x, y) == <<x, y>>

decode_ctx(encoded) == <<encoded[1], encoded[2]>>

\* 0 > int64_t(ctx): the sign bit of the word is the sign of its high int32
IsNegative64(ctx) == ctx[2] < 0

is_front_side(write_index, read_index) == read_index <= write_index

\* a variant without the reserved cell that keeps R == W meaning "empty"
check_write_available_NoReserve(write_index, read_index, maxSize) ==
    IF is_front_side(write_index, read_index)
    THEN LET avail == maxSize - write_index
             top_area == read_index
         IN IF avail < top_area THEN <<top_area, 0>> ELSE <<avail, -1>>
    ELSE <<read_index - write_index, -1>>

\* a variant that measures the free space up to the end of the buffer in both phases
check_write_available_NoPhase(write_index, read_index, maxSize) ==
    LET avail == maxSize - write_index
        top_area == read_index - 1
    IN IF is_front_side(write_index, read_index) /\ avail < top_area
       THEN <<top_area, 0>> ELSE <<avail, -1>>

\* a variant that hands out the whole gap up to read_index in the back phase
check_write_available_BackFull(write_index, read_index, maxSize) ==
    IF is_front_side(write_index, read_index)
    THEN LET avail == maxSize - write_index
             top_area == read_index - 1
         IN IF avail < top_area THEN <<top_area, 0>> ELSE <<avail, -1>>
    ELSE <<read_index - write_index, -1>>

\* a variant that also goes back to the front when the two stretches are equal
check_write_available_TieFlips(write_index, read_index, maxSize) ==
    IF is_front_side(write_index, read_index)
    THEN LET avail == maxSize - write_index
             top_area == read_index - 1
         IN IF avail <= top_area THEN <<top_area, 0>> ELSE <<avail, -1>>
    ELSE <<read_index - write_index - 1, -1>>

\* a variant in which the producer never goes back to the front of the buffer
check_write_available_NoFlip(write_index, read_index, maxSize) ==
    IF is_front_side(write_index, read_index)
    THEN <<maxSize - write_index, -1>>
    ELSE <<read_index - write_index - 1, -1>>

\* a variant whose flip to offset 0 reports the room behind write_index
check_write_available_FlipSuffix(write_index, read_index, maxSize) ==
    IF is_front_side(write_index, read_index)
    THEN LET avail == maxSize - write_index
             top_area == read_index - 1
         IN IF avail < top_area THEN <<avail, 0>> ELSE <<avail, -1>>
    ELSE <<read_index - write_index - 1, -1>>

\* <<avail, new_write_index>>
check_write_available(write_index, read_index, maxSize) ==
    IF is_front_side(write_index, read_index)
    THEN LET avail == maxSize - write_index
             top_area == read_index - 1
         IN IF avail < top_area THEN <<top_area, 0>> ELSE <<avail, -1>>
    ELSE <<read_index - write_index - 1, -1>>

\* a variant whose flip to the front reports no element
check_read_available_FlipEmpty(write_index, read_end_index, read_index) ==
    IF is_front_side(write_index, read_index)
    THEN <<write_index - read_index, -1>>
    ELSE LET avail == read_end_index - read_index
         IN IF 0 = avail THEN <<0, 0>> ELSE <<avail, -1>>

\* a variant that reads the back phase up to the end of the buffer
check_read_available_NoReadEnd(write_index, read_end_index, read_index) ==
    IF is_front_side(write_index, read_index)
    THEN <<write_index - read_index, -1>>
    ELSE LET avail == kMaxSize - read_index
         IN IF 0 = avail THEN <<write_index, 0>> ELSE <<avail, -1>>

\* a variant that never flips the reader to the front
check_read_available_NoFlip(write_index, read_end_index, read_index) ==
    IF is_front_side(write_index, read_index)
    THEN <<write_index - read_index, -1>>
    ELSE <<read_end_index - read_index, -1>>

\* a variant that also goes back to offset 0 from an empty front phase
check_read_available_FrontFlips(write_index, read_end_index, read_index) ==
    IF is_front_side(write_index, read_index)
    THEN IF write_index = read_index /\ 0 < read_index
         THEN <<0, 0>>
         ELSE <<write_index - read_index, -1>>
    ELSE LET avail == read_end_index - read_index
         IN IF 0 = avail THEN <<write_index, 0>> ELSE <<avail, -1>>

\* a variant whose flip counts the elements at the front but stays where it is
check_read_available_FlipInPlace(write_index, read_end_index, read_index) ==
    IF is_front_side(write_index, read_index)
    THEN <<write_index - read_index, -1>>
    ELSE LET avail == read_end_index - read_index
         IN IF 0 = avail THEN <<write_index, -1>> ELSE <<avail, -1>>

\* <<avail, new_read_index>>
check_read_available(write_index, read_end_index, read_index) ==
    IF is_front_side(write_index, read_index)
    THEN <<write_index - read_index, -1>>
    ELSE LET avail == read_end_index - read_index
         IN IF 0 = avail THEN <<write_index, 0>> ELSE <<avail, -1>>

is_empty(write_index, read_end_index, read_index) ==
    IF is_front_side(write_index, read_index)
    THEN write_index = read_index
    ELSE read_end_index = read_index

\* ------------------------------------------------------------- helpers
Ret(op, ptr, val) == [op |-> op, ptr |-> ptr, val |-> val, done |-> TRUE]

Pending(op) == [op |-> op, ptr |-> NULL, val |-> 0, done |-> FALSE]

NoWLocals == [want |-> 0, write_ctx |-> <<0, 0>>, write_index |-> 0,
              read_end_index |-> 0, read_index |-> 0,
              write_index2 |-> 0, read_end_index2 |-> 0]

NoCLocals == [ctx |-> <<0, 0>>, index |-> 0]

NoRLocals == [want |-> 0, read_index |-> 0, read_index2 |-> 0, write_ctx |-> <<0, 0>>]

BufAt(i) == IF i \in DOMAIN m_buffer THEN m_buffer[i] ELSE 0

\* a variant that wraps the write index at the end of the buffer
NewWriteIndex_Wraps(write_index2, writtenSize) == (write_index2 + writtenSize) % kMaxSize

\* moveWritePtr: new_write_index, not wrapped here
NewWriteIndex(write_index2, writtenSize) == write_index2 + writtenSize

\* a variant in which moveReadPtr goes back to the front at read_end_index in the
\* front phase too
NewReadIndex_AnyPhase(stepped, write_index, read_index2, read_end_index) ==
    IF read_end_index <= stepped THEN 0 ELSE stepped

\* moveReadPtr: new_read_index, taken back to the front when the back phase is
\* read up to read_end_index
NewReadIndex(stepped, write_index, read_index2, read_end_index) ==
    IF ~is_front_side(write_index, read_index2) /\ read_end_index <= stepped
    THEN 0 ELSE stepped

\* a variant in which read_end_index follows write_index in the back phase too
NewReadEnd_Follows(new_write_index, read_index, read_end_index2) == new_write_index

\* moveWritePtr: read_end_index follows write_index in the front phase and keeps
\* the value of the flip in the back phase
NewReadEnd(new_write_index, read_index, read_end_index2) ==
    IF is_front_side(new_write_index, read_index) THEN new_write_index ELSE read_end_index2

\* a variant that goes on to the wait without publishing the flip
FlipComputed_Never(updated_index) == FALSE

\* if (0 <= updated_write_index) / if (0 <= updated_read_index) after the region
\* test: a flip was computed and is published before the wait
FlipComputed(updated_index) == 0 <= updated_index

\* a variant in which the notification is lost
NotifyWriteCtx_Lost(pc) == pc

\* notify_one on m_write_ctx: the only thread that waits on it is the consumer
NotifyWriteCtx(pc) == IF pc = "gr_sleep" THEN "gr_wait" ELSE pc

\* m_read_index.notify_one() that wakes nobody
NotifyReadIndex_Lost(pc) == pc

\* notify_one on m_read_index: the only thread that waits on it is the producer
NotifyReadIndex(pc) ==
    IF pc = "gw_sleep" THEN "gw_wait" ELSE IF pc = "wu_sleep" THEN "wu_wait" ELSE pc

WBlocked == wpc \in {"gw_wait", "gw_sleep", "wu_wait", "wu_sleep"}

RBlocked == rpc \in {"gr_wait", "gr_sleep"}

WInCall == wpc \notin {"idle", "w_hold"}

RInCall == rpc \notin {"idle", "r_hold"}

\* m_write_im{} and m_read_im{}: value-initialised scratch
NoWriteIm == [write_ctx |-> <<0, 0>>, write_index2 |-> 0, read_end_index2 |-> 0,
              read_index |-> 0, avail |-> 0]

NoReadIm == [read_index |-> 0, read_index2 |-> 0, write_index |-> 0,
             read_end_index |-> 0, avail |-> 0]

\* everything but the two atomics
InitSpscRest ==
    /\ m_write_im = NoWriteIm
    /\ m_read_im = NoReadIm
    /\ m_buffer = [i \in 0 .. kMaxSize - 1 |-> 0]
    /\ wpc = "idle" /\ wl = NoWLocals /\ wret = Ret("none", NULL, 0)
    /\ rpc = "idle" /\ rl = NoRLocals /\ rret = Ret("none", NULL, 0)
    /\ cpc = "idle" /\ cl = NoCLocals
    /\ cancelReturned = FALSE
    /\ wafter = FALSE /\ rafter = FALSE
    /\ whit = FALSE /\ rhit = FALSE
    /\ wlog = <<>> /\ rlog = <<>>

InitSpsc ==
    /\ m_write_ctx = <<0, 0>>
    /\ m_read_index = 0
    /\ InitSpscRest

\* ------------------------------------------------------------ MPSC state
Producers == 1 .. NumProducers

Cells == 0 .. max_size - 1

\* the element X{id, seq}; a cell that was never stored holds NoElem
Elem(id, seq) == <<id, seq>>

NoElem == <<0, 0>>

NoPLocals == [wait |-> FALSE, write_index |-> 0, new_write_index |-> 0, read_index |-> 0]

NoQLocals == [wait |-> FALSE, num |-> 0, read_index |-> 0, read_max_index |-> 0,
              data |-> <<>>]

NoKLocals == [index |-> 0]

InitMpsc ==
    /\ mp_write_index = 0
    /\ mp_read_max_index = 0
    /\ mp_read_index = 0
    /\ m_read_index_expected = 0
    /\ m_read_index_desired = 0
    /\ mp_buffer = [i \in Cells |-> NoElem]
    /\ ppc = [p \in Producers |-> "idle"]
    /\ pl = [p \in Producers |-> NoPLocals]
    /\ pret = [p \in Producers |-> FALSE]
    /\ pseq = [p \in Producers |-> 0]
    /\ qpc = "idle" /\ ql = NoQLocals /\ qret = 0
    /\ kpc = "idle" /\ kl = NoKLocals
    /\ mcancelReturned = FALSE
    /\ pafter = [p \in Producers |-> FALSE] /\ qafter = FALSE
    /\ reserved = <<>> /\ published = <<>> /\ delivered = <<>>
    /\ owner = [i \in Cells |-> NoElem]

\* both rings as constructed; the budgets say which ring the run uses and how long
Init == InitSpsc /\ InitMpsc /\ budget = MaxBytes /\ pbudget = 0 /\ sizeList = <<>>

InitCancel ==
    InitSpsc /\ InitMpsc /\ budget = CancelBytes /\ pbudget = 0 /\ sizeList = <<>>

InitM == InitSpsc /\ InitMpsc /\ budget = 0 /\ pbudget = MaxPush /\ sizeList = <<>>

InitMCancel ==
    InitSpsc /\ InitMpsc /\ budget = 0 /\ pbudget = CancelPush /\ sizeList = <<>>

\* --------------------------------------------- update_write_ctx / update_read_ctx
\* The CAS loop ends when the exchange succeeds or the word holds the cancel
\* sentinel; otherwise it retries (no step).
update_write_ctx_ends(currentVal) == m_write_ctx = currentVal \/ IsNegative64(m_write_ctx)

update_write_ctx_result(currentVal) == m_write_ctx = currentVal

\* a variant that stores newValue whatever the word holds
update_write_ctx_Store(currentVal, newValue) ==
    /\ update_write_ctx_ends(currentVal)
    /\ m_write_ctx' = newValue
    /\ rpc' = NotifyWriteCtx(rpc)

update_write_ctx(currentVal, newValue) ==
    /\ update_write_ctx_ends(currentVal)
    /\ IF m_write_ctx = currentVal
       THEN /\ m_write_ctx' = newValue
            /\ rpc' = NotifyWriteCtx(rpc)
       ELSE UNCHANGED <<m_write_ctx, rpc>>

update_read_ctx_ends(currentVal) == m_read_index = currentVal \/ 0 > m_read_index

update_read_ctx_result(currentVal) == m_read_index = currentVal

update_read_ctx(currentVal, newValue) ==
    /\ update_read_ctx_ends(currentVal)
    /\ IF m_read_index = currentVal
       THEN /\ m_read_index' = newValue
            /\ wpc' = NotifyReadIndex(wpc)
       ELSE UNCHANGED <<m_read_index, wpc>>

\* a variant of the test that hands out any non-empty region
Granted_AnyLength(avail, wantSize) == 0 < avail

\* a variant in which no commit is refused
Overcommit_Never(avail, size) == FALSE

\* the first test of moveWritePtr and moveReadPtr
Overcommit(avail, size) == avail < size

\* a variant in which no request is too large
TooLarge_Never(wantSize) == FALSE

\* the first test of getWritePtr and getReadPtr
TooLarge(wantSize) == kMaxSize \div 2 < wantSize

\* a variant in which no call is non-blocking
NonBlocking_Never(wantSize) == FALSE

\* wantSize == 0 makes getWritePtr and getReadPtr non-blocking
NonBlocking(wantSize) == 0 >= wantSize

\* the test of getWritePtr and getReadPtr that hands out the region
Granted(avail, wantSize) == 0 < avail /\ wantSize <= avail

\* ------------------------------------------------------------ producer
WReturn(op, ptr, val) ==
    /\ wpc' = "idle"
    /\ wl' = NoWLocals
    /\ wret' = Ret(op, ptr, val)

\* entry of getWritePtr: the TooLarge test and the load of the producer's own word
GetWritePtr(wantSize) ==
    /\ wpc = "idle"
    /\ wafter' = cancelReturned
    /\ whit' = FALSE
    /\ IF TooLarge(wantSize)
       THEN WReturn("getWritePtr", NULL, -1)
       ELSE IF 0 > decode_ctx(m_write_ctx)[1]
       THEN WReturn("getWritePtr", NULL, -1)
       ELSE /\ wpc' = "gw_loop"
            /\ wl' = [NoWLocals EXCEPT !.want = wantSize,
                                       !.write_ctx = m_write_ctx,
                                       !.write_index = decode_ctx(m_write_ctx)[1],
                                       !.read_end_index = decode_ctx(m_write_ctx)[2]]
            /\ wret' = Pending("getWritePtr")
    /\ UNCHANGED <<m_write_ctx, m_read_index, m_write_im, m_read_im, m_buffer,
                   rpc, rl, rret, cpc, cl, cancelReturned, wlog, rlog, budget,
                   rafter, rhit, mvars, sizeList>>

\* one turn of the loop: load m_read_index, compute the free space, and either
\* hand out the region, go on to publish the flip, return Empty, or go to wait
GetWritePtrLoop ==
    /\ wpc = "gw_loop"
    /\ LET read_index == m_read_index
           chk == check_write_available(wl.write_index, read_index, kMaxSize)
           avail == chk[1]
           updated_write_index == chk[2]
           write_index2 == IF 0 <= updated_write_index THEN updated_write_index
                                                        ELSE wl.write_index
           read_end_index2 == IF 0 <= updated_write_index THEN wl.write_index
                                                           ELSE wl.read_end_index
       IN IF 0 > read_index
          THEN /\ WReturn("getWritePtr", NULL, -1)
               /\ UNCHANGED m_write_im
          ELSE IF Granted(avail, wl.want)
          THEN /\ m_write_im' = [write_ctx |-> wl.write_ctx,
                                 write_index2 |-> write_index2,
                                 read_end_index2 |-> read_end_index2,
                                 read_index |-> read_index,
                                 avail |-> avail]
               /\ wpc' = "w_hold"
               /\ wl' = NoWLocals
               /\ wret' = Ret("getWritePtr", write_index2, avail)
          ELSE IF FlipComputed(updated_write_index)
          THEN /\ wpc' = "gw_flip"
               /\ wl' = [wl EXCEPT !.read_index = read_index,
                                   !.write_index2 = write_index2,
                                   !.read_end_index2 = read_end_index2]
               /\ UNCHANGED <<m_write_im, wret>>
          ELSE IF NonBlocking(wl.want)
          THEN /\ WReturn("getWritePtr", NULL, 0)
               /\ UNCHANGED m_write_im
          ELSE /\ wpc' = "gw_wait"
               /\ wl' = [wl EXCEPT !.read_index = read_index]
               /\ UNCHANGED <<m_write_im, wret>>
    /\ UNCHANGED <<m_write_ctx, m_read_index, m_read_im, m_buffer,
                   rpc, rl, rret, cpc, cl, cancelReturned,
                   wlog, rlog, budget,
                   wafter, rafter, whit, rhit, mvars, sizeList>>

\* the flip is published before the wait (or before Empty is returned)
GetWritePtrFlip ==
    /\ wpc = "gw_flip"
    /\ LET write_ctx2 == encode_ctx(wl.write_index2, wl.read_end_index2)
       IN /\ update_write_ctx(wl.write_ctx, write_ctx2)
          /\ IF ~update_write_ctx_result(wl.write_ctx)
             THEN WReturn("getWritePtr", NULL, -1)
             ELSE IF NonBlocking(wl.want)
             THEN WReturn("getWritePtr", NULL, 0)
             ELSE /\ wpc' = "gw_wait"
                  /\ wl' = [wl EXCEPT !.write_ctx = write_ctx2,
                                      !.write_index = wl.write_index2,
                                      !.read_end_index = wl.read_end_index2]
                  /\ UNCHANGED wret
    /\ UNCHANGED <<m_read_index, m_write_im, m_read_im, m_buffer,
                   rl, rret, cpc, cl, cancelReturned,
                   wlog, rlog, budget,
                   wafter, rafter, whit, rhit, mvars, sizeList>>

\* m_read_index.wait(read_index): the atomic comparison
GetWritePtrWait ==
    /\ wpc = "gw_wait"
    /\ wpc' = IF m_read_index # wl.read_index THEN "gw_loop" ELSE "gw_sleep"
    /\ UNCHANGED <<m_write_ctx, m_read_index, m_write_im, m_read_im, m_buffer,
                   wl, wret, rpc, rl, rret, cpc, cl, cancelReturned, wlog, rlog, budget,
                   wafter, rafter, whit, rhit, mvars, sizeList>>

\* the producer fills the first writtenSize cells of its region and commits them
MoveWritePtr(writtenSize) ==
    /\ wpc \in {"w_hold", "idle"}
    /\ wpc = "idle" => (Overcommit(m_write_im.avail, writtenSize) \/ cancelReturned)
    /\ wafter' = cancelReturned
    /\ whit' = FALSE
    /\ IF Overcommit(m_write_im.avail, writtenSize)
       THEN /\ wret' = Ret("moveWritePtr", NULL, -1)
            /\ UNCHANGED <<m_write_ctx, m_write_im, m_buffer, wpc, wl, rpc, wlog>>
       ELSE LET read_end_index2 == m_write_im.read_end_index2
                new_write_index == NewWriteIndex(m_write_im.write_index2, writtenSize)
                new_read_end_index ==
                    NewReadEnd(new_write_index, m_write_im.read_index, read_end_index2)
                new_write_ctx == encode_ctx(new_write_index, new_read_end_index)
                data == [k \in 1 .. writtenSize |-> Len(wlog) + k]
            IN /\ Len(wlog) + writtenSize <= budget
               /\ m_buffer' = [i \in DOMAIN m_buffer |->
                                 IF /\ m_write_im.write_index2 <= i
                                    /\ i < m_write_im.write_index2 + writtenSize
                                 THEN data[i - m_write_im.write_index2 + 1]
                                 ELSE m_buffer[i]]
               /\ update_write_ctx(m_write_im.write_ctx, new_write_ctx)
               /\ IF ~update_write_ctx_result(m_write_im.write_ctx)
                  THEN /\ WReturn("moveWritePtr", NULL, -1)
                       /\ UNCHANGED <<m_write_im, wlog>>
                  ELSE \* m_write_im.avail = 0. The other four fields are dead from
                       \* here on: getWritePtr stores all five before the next commit
                       \* reads them, so the model zeroes them with avail.
                       /\ m_write_im' = NoWriteIm
                       /\ WReturn("moveWritePtr", NULL, writtenSize)
                       /\ wlog' = wlog \o data
    /\ UNCHANGED <<m_read_index, m_read_im, rl, rret, cpc, cl, cancelReturned, rlog, budget,
                   rafter, rhit, mvars, sizeList>>

WaitUntilEmptyForWriter ==
    /\ wpc = "idle"
    /\ wafter' = cancelReturned
    /\ whit' = FALSE
    /\ IF 0 > decode_ctx(m_write_ctx)[1]
       THEN WReturn("waitUntilEmptyForWriter", NULL, 0)
       ELSE /\ wpc' = "wu_loop"
            /\ wl' = [NoWLocals EXCEPT !.write_ctx = m_write_ctx,
                                       !.write_index = decode_ctx(m_write_ctx)[1],
                                       !.read_end_index = decode_ctx(m_write_ctx)[2]]
            /\ wret' = Pending("waitUntilEmptyForWriter")
    /\ UNCHANGED <<m_write_ctx, m_read_index, m_write_im, m_read_im, m_buffer,
                   rpc, rl, rret, cpc, cl, cancelReturned, wlog, rlog, budget,
                   rafter, rhit, mvars, sizeList>>

WaitUntilEmptyLoop ==
    /\ wpc = "wu_loop"
    /\ LET read_index == m_read_index
       IN IF 0 > read_index
          THEN WReturn("waitUntilEmptyForWriter", NULL, 0)
          ELSE IF is_empty(wl.write_index, wl.read_end_index, read_index)
          THEN WReturn("waitUntilEmptyForWriter", NULL, 0)
          ELSE /\ wpc' = "wu_wait"
               /\ wl' = [wl EXCEPT !.read_index = read_index]
               /\ UNCHANGED wret
    /\ UNCHANGED <<m_write_ctx, m_read_index, m_write_im, m_read_im, m_buffer,
                   rpc, rl, rret, cpc, cl, cancelReturned,
                   wlog, rlog, budget,
                   wafter, rafter, whit, rhit, mvars, sizeList>>

WaitUntilEmptyWait ==
    /\ wpc = "wu_wait"
    /\ wpc' = IF m_read_index # wl.read_index THEN "wu_loop" ELSE "wu_sleep"
    /\ UNCHANGED <<m_write_ctx, m_read_index, m_write_im, m_read_im, m_buffer,
                   wl, wret, rpc, rl, rret, cpc, cl, cancelReturned, wlog, rlog, budget,
                   wafter, rafter, whit, rhit, mvars, sizeList>>

\* ------------------------------------------------------------ consumer
RReturn(op, ptr, val) ==
    /\ rpc' = "idle"
    /\ rl' = NoRLocals
    /\ rret' = Ret(op, ptr, val)

\* entry of getReadPtr: the TooLarge test and the load of the consumer's own word
GetReadPtr(wantSize) ==
    /\ rpc = "idle"
    /\ rafter' = cancelReturned
    /\ rhit' = FALSE
    /\ IF TooLarge(wantSize)
       THEN RReturn("getReadPtr", NULL, -1)
       ELSE IF 0 > m_read_index
       THEN RReturn("getReadPtr", NULL, -1)
       ELSE /\ rpc' = "gr_loop"
            /\ rl' = [NoRLocals EXCEPT !.want = wantSize, !.read_index = m_read_index]
            /\ rret' = Pending("getReadPtr")
    /\ UNCHANGED <<m_write_ctx, m_read_index, m_write_im, m_read_im, m_buffer,
                   wpc, wl, wret, cpc, cl, cancelReturned, wlog, rlog, budget,
                   wafter, whit, mvars, sizeList>>

\* a variant that stores the flipped read index when it hands out the region
GetReadPtrLoop_FlipAtGrant ==
    /\ rpc = "gr_loop"
    /\ LET write_ctx == m_write_ctx
           write_index == decode_ctx(write_ctx)[1]
           read_end_index == decode_ctx(write_ctx)[2]
           chk == check_read_available(write_index, read_end_index, rl.read_index)
           avail == chk[1]
           updated_read_index == chk[2]
           read_index2 == IF 0 <= updated_read_index THEN updated_read_index
                                                      ELSE rl.read_index
       IN IF 0 > write_index
          THEN /\ RReturn("getReadPtr", NULL, -1)
               /\ UNCHANGED <<m_read_im, m_read_index>>
          ELSE IF Granted(avail, rl.want)
          THEN /\ m_read_im' = [read_index |-> rl.read_index,
                                read_index2 |-> read_index2,
                                write_index |-> write_index,
                                read_end_index |-> read_end_index,
                                avail |-> avail]
               /\ rpc' = "r_hold"
               /\ rl' = NoRLocals
               /\ rret' = Ret("getReadPtr", read_index2, avail)
               /\ m_read_index' = read_index2
          ELSE IF FlipComputed(updated_read_index)
          THEN /\ rpc' = "gr_flip"
               /\ rl' = [rl EXCEPT !.write_ctx = write_ctx, !.read_index2 = read_index2]
               /\ UNCHANGED <<m_read_im, rret, m_read_index>>
          ELSE IF NonBlocking(rl.want)
          THEN /\ RReturn("getReadPtr", NULL, 0)
               /\ UNCHANGED <<m_read_im, m_read_index>>
          ELSE /\ rpc' = "gr_wait"
               /\ rl' = [rl EXCEPT !.write_ctx = write_ctx]
               /\ UNCHANGED <<m_read_im, rret, m_read_index>>
    /\ UNCHANGED <<m_write_ctx, m_write_im, m_buffer,
                   wpc, wl, wret, cpc, cl, cancelReturned,
                   wlog, rlog, budget,
                   wafter, rafter, whit, rhit, mvars, sizeList>>

GetReadPtrLoop ==
    /\ rpc = "gr_loop"
    /\ LET write_ctx == m_write_ctx
           write_index == decode_ctx(write_ctx)[1]
           read_end_index == decode_ctx(write_ctx)[2]
           chk == check_read_available(write_index, read_end_index, rl.read_index)
           avail == chk[1]
           updated_read_index == chk[2]
           read_index2 == IF 0 <= updated_read_index THEN updated_read_index
                                                      ELSE rl.read_index
       IN IF 0 > write_index
          THEN /\ RReturn("getReadPtr", NULL, -1)
               /\ UNCHANGED m_read_im
          ELSE IF Granted(avail, rl.want)
          THEN /\ m_read_im' = [read_index |-> rl.read_index,
                                read_index2 |-> read_index2,
                                write_index |-> write_index,
                                read_end_index |-> read_end_index,
                                avail |-> avail]
               /\ rpc' = "r_hold"
               /\ rl' = NoRLocals
               /\ rret' = Ret("getReadPtr", read_index2, avail)
          ELSE IF FlipComputed(updated_read_index)
          THEN /\ rpc' = "gr_flip"
               /\ rl' = [rl EXCEPT !.write_ctx = write_ctx, !.read_index2 = read_index2]
               /\ UNCHANGED <<m_read_im, rret>>
          ELSE IF NonBlocking(rl.want)
          THEN /\ RReturn("getReadPtr", NULL, 0)
               /\ UNCHANGED m_read_im
          ELSE /\ rpc' = "gr_wait"
               /\ rl' = [rl EXCEPT !.write_ctx = write_ctx]
               /\ UNCHANGED <<m_read_im, rret>>
    /\ UNCHANGED <<m_write_ctx, m_read_index, m_write_im, m_buffer,
                   wpc, wl, wret, cpc, cl, cancelReturned,
                   wlog, rlog, budget,
                   wafter, rafter, whit, rhit, mvars, sizeList>>

GetReadPtrFlip ==
    /\ rpc = "gr_flip"
    /\ update_read_ctx(rl.read_index, rl.read_index2)
    /\ IF ~update_read_ctx_result(rl.read_index)
       THEN RReturn("getReadPtr", NULL, -1)
       ELSE IF NonBlocking(rl.want)
       THEN RReturn("getReadPtr", NULL, 0)
       ELSE /\ rpc' = "gr_wait"
            /\ rl' = [rl EXCEPT !.read_index = rl.read_index2]
            /\ UNCHANGED rret
    /\ UNCHANGED <<m_write_ctx, m_write_im, m_read_im, m_buffer,
                   wl, wret, cpc, cl, cancelReturned,
                   wlog, rlog, budget,
                   wafter, rafter, whit, rhit, mvars, sizeList>>

\* m_write_ctx.wait(write_ctx): the atomic comparison
GetReadPtrWait ==
    /\ rpc = "gr_wait"
    /\ rpc' = IF m_write_ctx # rl.write_ctx THEN "gr_loop" ELSE "gr_sleep"
    /\ UNCHANGED <<m_write_ctx, m_read_index, m_write_im, m_read_im, m_buffer,
                   wpc, wl, wret, rl, rret, cpc, cl, cancelReturned, wlog, rlog, budget,
                   wafter, rafter, whit, rhit, mvars, sizeList>>

\* the consumer reads the first readSize cells of its region and commits them
MoveReadPtr(readSize) ==
    /\ rpc \in {"r_hold", "idle"}
    /\ rpc = "idle" => (Overcommit(m_read_im.avail, readSize) \/ cancelReturned)
    /\ rafter' = cancelReturned
    /\ rhit' = FALSE
    /\ IF Overcommit(m_read_im.avail, readSize)
       THEN /\ rret' = Ret("moveReadPtr", NULL, -1)
            /\ UNCHANGED <<m_read_index, m_read_im, rpc, rl, wpc, rlog>>
       ELSE LET new_read_index ==
                    NewReadIndex(m_read_im.read_index2 + readSize, m_read_im.write_index,
                                 m_read_im.read_index2, m_read_im.read_end_index)
                data == [k \in 1 .. readSize |-> BufAt(m_read_im.read_index2 + k - 1)]
            IN /\ update_read_ctx(m_read_im.read_index, new_read_index)
               /\ IF ~update_read_ctx_result(m_read_im.read_index)
                  THEN /\ RReturn("moveReadPtr", NULL, -1)
                       /\ UNCHANGED <<m_read_im, rlog>>
                  ELSE \* m_read_im.avail = 0, and the dead fields as in moveWritePtr
                       /\ m_read_im' = NoReadIm
                       /\ RReturn("moveReadPtr", NULL, readSize)
                       /\ rlog' = rlog \o data
    /\ UNCHANGED <<m_write_ctx, m_write_im, m_buffer, wl, wret, cpc, cl, cancelReturned, wlog, budget,
                   wafter, whit, mvars, sizeList>>

\* -------------------------------------------------------------- cancel()
\* first loop, load of m_write_ctx (also the entry of the call)
CancelLoadWriteCtx ==
    /\ cpc \in {"idle", "c1_load"}
    /\ IF 0 > decode_ctx(m_write_ctx)[1]
       THEN cpc' = "c2_load" /\ cl' = NoCLocals
       ELSE cpc' = "c1_cas" /\ cl' = [NoCLocals EXCEPT !.ctx = m_write_ctx]
    /\ UNCHANGED <<m_write_ctx, m_read_index, m_write_im, m_read_im, m_buffer,
                   wpc, wl, wret, rpc, rl, rret, cancelReturned, wlog, rlog, budget,
                   wafter, rafter, whit, rhit, mvars, sizeList>>

\* first loop, compare_exchange_strong and notify_one
CancelCasWriteCtx ==
    /\ cpc = "c1_cas"
    /\ IF m_write_ctx = cl.ctx
       THEN /\ m_write_ctx' = encode_ctx(-1, -1)
            /\ rpc' = NotifyWriteCtx(rpc)
            /\ rhit' = (rhit \/ RBlocked)
            /\ cpc' = "c2_load"
       ELSE /\ cpc' = "c1_load"
            /\ UNCHANGED <<m_write_ctx, rpc, rhit>>
    /\ cl' = NoCLocals
    /\ UNCHANGED <<m_read_index, m_write_im, m_read_im, m_buffer,
                   wpc, wl, wret, rl, rret, cancelReturned, wlog, rlog, budget,
                   wafter, rafter, whit, mvars, sizeList>>

\* a variant of cancel() that returns after its first loop
CancelLoadReadIndex_Skip ==
    /\ cpc = "c2_load"
    /\ cpc' = "idle" /\ cl' = NoCLocals /\ cancelReturned' = TRUE
    /\ UNCHANGED <<m_write_ctx, m_read_index, m_write_im, m_read_im, m_buffer,
                   wpc, wl, wret, rpc, rl, rret,
                   wafter, rafter, whit, rhit, wlog, rlog, budget, mvars, sizeList>>

\* second loop, load of m_read_index
CancelLoadReadIndex ==
    /\ cpc = "c2_load"
    /\ IF 0 > m_read_index
       THEN cpc' = "idle" /\ cl' = NoCLocals /\ cancelReturned' = TRUE
       ELSE /\ cpc' = "c2_cas"
            /\ cl' = [NoCLocals EXCEPT !.index = m_read_index]
            /\ UNCHANGED cancelReturned
    /\ UNCHANGED <<m_write_ctx, m_read_index, m_write_im, m_read_im, m_buffer,
                   wpc, wl, wret, rpc, rl, rret, wlog, rlog, budget,
                   wafter, rafter, whit, rhit, mvars, sizeList>>

\* second loop, compare_exchange_strong and notify_one
CancelCasReadIndex ==
    /\ cpc = "c2_cas"
    /\ IF m_read_index = cl.index
       THEN /\ m_read_index' = -1
            /\ wpc' = NotifyReadIndex(wpc)
            /\ whit' = (whit \/ WBlocked)
            /\ cpc' = "idle"
            /\ cancelReturned' = TRUE
       ELSE /\ cpc' = "c2_load"
            /\ UNCHANGED <<m_read_index, wpc, whit, cancelReturned>>
    /\ cl' = NoCLocals
    /\ UNCHANGED <<m_write_ctx, m_write_im, m_read_im, m_buffer,
                   wl, wret, rpc, rl, rret, wlog, rlog, budget,
                   wafter, rafter, rhit, mvars, sizeList>>

\* --------------------------------------------------------- specifications
Wants == 0 .. (kMaxSize \div 2 + 1)

\* commit sizes: everything up to the avail of the latest acquire, and one more
Sizes(avail) == 0 .. (avail + 1)

ProducerStep ==
    \/ \E want \in Wants : GetWritePtr(want)
    \/ GetWritePtrLoop
    \/ GetWritePtrFlip
    \/ GetWritePtrWait
    \/ \E n \in Sizes(m_write_im.avail) : MoveWritePtr(n)
    \/ WaitUntilEmptyForWriter
    \/ WaitUntilEmptyLoop
    \/ WaitUntilEmptyWait

ConsumerStep ==
    \/ \E want \in Wants : GetReadPtr(want)
    \/ GetReadPtrLoop
    \/ GetReadPtrFlip
    \/ GetReadPtrWait
    \/ \E n \in Sizes(m_read_im.avail) : MoveReadPtr(n)

CancelStep ==
    \/ CancelLoadWriteCtx
    \/ CancelCasWriteCtx
    \/ CancelLoadReadIndex
    \/ CancelCasReadIndex

NextSpsc == ProducerStep \/ ConsumerStep

NextSpscCancel == ProducerStep \/ ConsumerStep \/ CancelStep

\* producer and consumer, nobody cancels
SpecSpsc == Init /\ [][NextSpsc]_vars

\* producer, consumer and a thread that calls cancel()
SpecSpscCancel == InitCancel /\ [][NextSpscCancel]_vars

\* the same, with every thread that is inside a call scheduled again and again
FairSpsc ==
    /\ WF_vars(WInCall /\ ProducerStep)
    /\ WF_vars(RInCall /\ ConsumerStep)
    /\ WF_vars(cpc # "idle" /\ CancelStep)

SpecSpscCancelFair == InitCancel /\ [][NextSpscCancel]_vars /\ FairSpsc

\* producer and consumer, nobody cancels; a thread that is inside a call is
\* scheduled again and again
FairSpscInCall ==
    /\ WF_vars(WInCall /\ ProducerStep)
    /\ WF_vars(RInCall /\ ConsumerStep)

SpecSpscFair == Init /\ [][NextSpsc]_vars /\ FairSpscInCall

\* ------------------------------------------- check_write_available on its own
\* any write_index and read_index in 0 .. kMaxSize; read_end_index is at or
\* beyond both
InitWriteAvail ==
    /\ \E w \in 0 .. kMaxSize, r \in 0 .. kMaxSize :
         /\ m_read_index = r
         /\ \E re \in (IF r <= w THEN w ELSE r) .. kMaxSize : m_write_ctx = encode_ctx(w, re)
    /\ InitSpscRest /\ InitMpsc
    /\ budget = 0 /\ pbudget = 0 /\ sizeList = <<>>

\* getWritePtr up to the point where it returns or goes to wait
NextWriteAvail ==
    \/ \E want \in Wants : GetWritePtr(want)
    \/ GetWritePtrLoop
    \/ GetWritePtrFlip

SpecWriteAvail == InitWriteAvail /\ [][NextWriteAvail]_vars

\* ------------------------------------------------ matching chunks (test Random)
\* sizes drawn by the test: 1 .. capacity/2
ChunkSizes == 1 .. (kMaxSize \div 2)

RECURSIVE SumSizes(_)
\* number of elements in the first k chunks
SumSizes(k) == IF k = 0 THEN 0 ELSE SumSizes(k - 1) + sizeList[k]

\* i of the producer loop / of the consumer loop: chunks committed so far
WChunk == CHOOSE k \in 0 .. NumChunks : SumSizes(k) = Len(wlog)

RChunk == CHOOSE k \in 0 .. NumChunks : SumSizes(k) = Len(rlog)

InitChunks ==
    /\ InitSpsc /\ InitMpsc
    /\ sizeList \in [1 .. NumChunks -> ChunkSizes]
    /\ budget = NumChunks * (kMaxSize \div 2)
    /\ pbudget = 0

\* processWriteBuf(rb, writer, sz): getWritePtr(sz), then moveWritePtr(sz)
ChunkProducerStep ==
    \/ WChunk < NumChunks /\ GetWritePtr(sizeList[WChunk + 1])
    \/ GetWritePtrLoop
    \/ GetWritePtrFlip
    \/ GetWritePtrWait
    \/ wpc = "w_hold" /\ MoveWritePtr(sizeList[WChunk + 1])

\* processReadBuf(rb, reader, sz): getReadPtr(sz), then moveReadPtr(sz)
ChunkConsumerStep ==
    \/ RChunk < NumChunks /\ GetReadPtr(sizeList[RChunk + 1])
    \/ GetReadPtrLoop
    \/ GetReadPtrFlip
    \/ GetReadPtrWait
    \/ rpc = "r_hold" /\ MoveReadPtr(sizeList[RChunk + 1])

NextChunks == ChunkProducerStep \/ ChunkConsumerStep

\* the two threads of the test run their loops to the end
FairChunks == WF_vars(ChunkProducerStep) /\ WF_vars(ChunkConsumerStep)

SpecSpscChunksFair == InitChunks /\ [][NextChunks]_vars /\ FairChunks

\* A consumer that drains the ring: it calls getReadPtr(1) again and again and
\* commits the whole region it is given; the producer is as before, nobody cancels.
DrainStep ==
    \/ GetReadPtr(1)
    \/ GetReadPtrLoop
    \/ GetReadPtrFlip
    \/ GetReadPtrWait
    \/ rpc = "r_hold" /\ MoveReadPtr(m_read_im.avail)

NextSpscDrain == ProducerStep \/ DrainStep

\* the consumer thread is scheduled again and again, between its calls too (it
\* keeps calling); the producer only while it is inside a call
FairSpscDrain ==
    /\ WF_vars(WInCall /\ ProducerStep)
    /\ WF_vars(DrainStep)

SpecSpscDrainFair == Init /\ [][NextSpscDrain]_vars /\ FairSpscDrain

\* ===================================================== MpscRingBuffer
pthreads == <<ppc, pl, pret, pseq, pafter>>

qscratch == <<m_read_index_expected, m_read_index_desired>>

qthread == <<qpc, ql, qret, qafter>>

kthread == <<kpc, kl, mcancelReturned>>

mhist == <<reserved, published, delivered, owner>>

\* the element the producer p is pushing: X{id, i} with i the count of its pushes so far
Data(p) == Elem(p, pseq[p])

read_availe(read_max_index, read_index) ==
    IF read_index <= read_max_index THEN read_max_index - read_index
    ELSE max_size - read_index

Min(a, b) == IF a <= b THEN a ELSE b

\* a variant that does not wrap at the end of the buffer
Desired_NoWrap(read_index, num) == read_index + num

\* peekCommon: the index commitPop will store
Desired(read_index, num) == (read_index + num) % max_size

NotifyReadMax(pc) == IF pc = "k_sleep" THEN "k_wait" ELSE pc

PInCall(p) == ppc[p] # "idle"

QInCall == qpc \notin {"idle", "k_hold"}

\* ------------------------------------------------------ pushCommon
\* the locals at "continue" and at a failed reservation: write_index,
\* new_write_index and read_index are assigned again before they are read
Continue(l) == [NoPLocals EXCEPT !.wait = l.wait]

PReturn(p, val) ==
    /\ ppc' = [ppc EXCEPT ![p] = "idle"]
    /\ pl' = [pl EXCEPT ![p] = NoPLocals]
    /\ pret' = [pret EXCEPT ![p] = val]

\* push(data) / tryPush(data): entry and the first load of m_write_index
PushCommon(p, wait) ==
    LET write_index == mp_write_index IN
    /\ ppc[p] = "idle"
    /\ pbudget > 0
    /\ pbudget' = pbudget - 1
    /\ pafter' = [pafter EXCEPT ![p] = mcancelReturned]
    /\ IF 0 > write_index
       THEN PReturn(p, FALSE)
       ELSE /\ ppc' = [ppc EXCEPT ![p] = "p_ri"]
            /\ pl' = [pl EXCEPT ![p] = [NoPLocals EXCEPT !.wait = wait,
                                                         !.write_index = write_index]]
            /\ pret' = [pret EXCEPT ![p] = FALSE]
    /\ UNCHANGED <<svars, sizeList, mp_write_index, mp_read_max_index, mp_read_index, mp_buffer,
                   pseq, qscratch, qthread, kthread, mhist>>

\* top of the for(;;) on a later iteration: load m_write_index
PushLoadWriteIndex(p) ==
    LET write_index == mp_write_index IN
    /\ ppc[p] = "p_wi"
    /\ IF 0 > write_index
       THEN PReturn(p, FALSE)
       ELSE /\ ppc' = [ppc EXCEPT ![p] = "p_ri"]
            /\ pl' = [pl EXCEPT ![p].write_index = write_index]
            /\ pret' = pret
    /\ UNCHANGED <<svars, sizeList, mp_write_index, mp_read_max_index, mp_read_index, mp_buffer,
                   pseq, pafter, qscratch, qthread, kthread, mhist, pbudget>>

\* load m_read_index, compute new_write_index, the full test
PushLoadReadIndex(p) ==
    LET read_index == mp_read_index
        new_write_index == (pl[p].write_index + 1) % max_size
    IN
    /\ ppc[p] = "p_ri"
    /\ IF 0 > read_index
       THEN PReturn(p, FALSE)
       ELSE IF new_write_index = read_index
       THEN IF ~pl[p].wait
            THEN PReturn(p, FALSE)
            ELSE /\ ppc' = [ppc EXCEPT ![p] = "p_wait"]
                 /\ pl' = [pl EXCEPT ![p].read_index = read_index]
                 /\ pret' = pret
       ELSE /\ ppc' = [ppc EXCEPT ![p] = "p_cas"]
            /\ pl' = [pl EXCEPT ![p].new_write_index = new_write_index]
            /\ pret' = pret
    /\ UNCHANGED <<svars, sizeList, mp_write_index, mp_read_max_index, mp_read_index, mp_buffer,
                   pseq, pafter, qscratch, qthread, kthread, mhist, pbudget>>

\* m_read_index.wait(read_index): compare, then sleep until notified
PushWait(p) ==
    /\ ppc[p] = "p_wait"
    /\ IF mp_read_index # pl[p].read_index
       THEN /\ ppc' = [ppc EXCEPT ![p] = "p_wi"]
            /\ pl' = [pl EXCEPT ![p] = Continue(pl[p])]
       ELSE /\ ppc' = [ppc EXCEPT ![p] = "p_sleep"]
            /\ pl' = pl
    /\ UNCHANGED <<svars, sizeList, mp_write_index, mp_read_max_index, mp_read_index, mp_buffer,
                   pret, pseq, pafter, qscratch, qthread, kthread, mhist,
                   pbudget>>

\* m_write_index.compare_exchange_strong(write_index, new_write_index); the
\* argument wait is not read after the loop
PushReserve(p) ==
    /\ ppc[p] = "p_cas"
    /\ IF mp_write_index = pl[p].write_index
       THEN /\ mp_write_index' = pl[p].new_write_index
            /\ reserved' = Append(reserved, Data(p))
            /\ owner' = [owner EXCEPT ![pl[p].write_index] = Data(p)]
            /\ ppc' = [ppc EXCEPT ![p] = "p_store"]
            /\ pl' = [pl EXCEPT ![p].wait = FALSE]
       ELSE /\ ppc' = [ppc EXCEPT ![p] = "p_wi"]
            /\ pl' = [pl EXCEPT ![p] = Continue(pl[p])]
            /\ UNCHANGED <<mp_write_index, reserved, owner>>
    /\ UNCHANGED <<svars, sizeList, mp_read_max_index, mp_read_index, mp_buffer,
                   pret, pseq, pafter, qscratch, qthread, kthread,
                   published, delivered, pbudget>>

\* m_buffer[write_index] = data
PushStore(p) ==
    /\ ppc[p] = "p_store"
    /\ mp_buffer' = [mp_buffer EXCEPT ![pl[p].write_index] = Data(p)]
    /\ ppc' = [ppc EXCEPT ![p] = "p_pub"]
    /\ UNCHANGED <<svars, sizeList, mp_write_index, mp_read_max_index, mp_read_index,
                   pl, pret, pseq, pafter, qscratch, qthread, kthread, mhist,
                   pbudget>>

\* the publish loop: compare_exchange_weak(write_index, new_write_index) on
\* m_read_max_index until it succeeds or finds the sentinel; notify_one on success
PushPublish(p) ==
    /\ ppc[p] = "p_pub"
    /\ mp_read_max_index = pl[p].write_index \/ 0 > mp_read_max_index
    /\ IF mp_read_max_index = pl[p].write_index
       THEN /\ mp_read_max_index' = pl[p].new_write_index
            /\ qpc' = NotifyReadMax(qpc)
            /\ published' = Append(published, Data(p))
            /\ pseq' = [pseq EXCEPT ![p] = @ + 1]
            /\ PReturn(p, TRUE)
       ELSE /\ PReturn(p, FALSE)
            /\ UNCHANGED <<mp_read_max_index, qpc, published, pseq>>
    /\ UNCHANGED <<svars, sizeList, mp_write_index, mp_read_index, mp_buffer,
                   pafter, qscratch, ql, qret, qafter, kthread,
                   reserved, delivered, owner, pbudget>>

\* ------------------------------------------------------ peekCommon
QReturn(val) ==
    /\ qpc' = "idle"
    /\ ql' = NoQLocals
    /\ qret' = val

\* peek(ppData, num) / tryPeek(ppData, num): entry and the load of m_read_index
PeekCommon(num, wait) ==
    /\ qpc = "idle"
    /\ qpc' = "k_loop"
    /\ ql' = [NoQLocals EXCEPT !.wait = wait, !.num = num, !.read_index = mp_read_index]
    /\ qret' = 0
    /\ qafter' = mcancelReturned
    /\ UNCHANGED <<svars, sizeList, mp_write_index, mp_read_max_index, mp_read_index, mp_buffer,
                   pthreads, qscratch, kthread, mhist, pbudget>>

\* one iteration of the for(;;): load m_read_max_index, the empty test, and on
\* a non-empty ring the slice and the scratch for commitPop
PeekLoop ==
    LET read_index == ql.read_index
        read_max_index == mp_read_max_index
        avail == read_availe(read_max_index, read_index)
        num == Min(avail, ql.num)
    IN
    /\ qpc = "k_loop"
    /\ IF 0 > read_max_index
       THEN /\ QReturn(-1)
            /\ UNCHANGED qscratch
       ELSE IF read_index = read_max_index
       THEN /\ IF ~ql.wait
               THEN QReturn(0)
               ELSE /\ qpc' = "k_wait"
                    /\ ql' = [ql EXCEPT !.read_max_index = read_max_index]
                    /\ qret' = qret
            /\ UNCHANGED qscratch
       ELSE /\ m_read_index_expected' = read_index
            /\ m_read_index_desired' = Desired(read_index, num)
            /\ qpc' = "k_hold"
            /\ ql' = [ql EXCEPT !.num = num,
                                !.data = [k \in 1 .. num |-> mp_buffer[read_index + k - 1]]]
            /\ qret' = num
    /\ UNCHANGED <<svars, sizeList, mp_write_index, mp_read_max_index, mp_read_index, mp_buffer,
                   pthreads, qafter, kthread, mhist, pbudget>>

\* m_read_max_index.wait(read_max_index)
PeekWait ==
    /\ qpc = "k_wait"
    /\ qpc' = IF mp_read_max_index # ql.read_max_index THEN "k_loop" ELSE "k_sleep"
    /\ UNCHANGED <<svars, sizeList, mp_write_index, mp_read_max_index, mp_read_index, mp_buffer,
                   pthreads, qscratch, ql, qret, qafter, kthread, mhist, pbudget>>

\* ------------------------------------------------------ commitPopCommon
\* commitPop() after a peek that returned n > 0 (or on a cancelled ring): the CAS
\* loop on m_read_index until it succeeds or finds the sentinel
CommitPopCommon ==
    /\ qpc = "k_hold" \/ (qpc = "idle" /\ mcancelReturned)
    /\ mp_read_index = m_read_index_expected \/ 0 > mp_read_index
    /\ IF mp_read_index = m_read_index_expected
       THEN /\ mp_read_index' = m_read_index_desired
            /\ delivered' = delivered \o ql.data
            /\ qpc' = "k_notify"
            /\ ql' = [ql EXCEPT !.data = <<>>]
       ELSE /\ qpc' = "idle"
            /\ ql' = NoQLocals
            /\ UNCHANGED <<mp_read_index, delivered>>
    /\ UNCHANGED <<svars, sizeList, mp_write_index, mp_read_max_index, mp_buffer,
                   pthreads, qscratch, qret, qafter, kthread, reserved, published,
                   owner, pbudget>>

\* m_read_index.notify_one(): one of the producers asleep on m_read_index, if any
CommitPopNotify ==
    LET sleepers == {p \in Producers : ppc[p] = "p_sleep"} IN
    /\ qpc = "k_notify"
    /\ \E w \in (IF sleepers = {} THEN {0} ELSE sleepers) :
          ppc' = [p \in Producers |-> IF p = w THEN "p_wait" ELSE ppc[p]]
    /\ qpc' = "idle"
    /\ ql' = NoQLocals
    /\ UNCHANGED <<svars, sizeList, mp_write_index, mp_read_max_index, mp_read_index, mp_buffer,
                   pl, pret, pseq, pafter, qscratch, qret, qafter, kthread,
                   mhist, pbudget>>

\* ------------------------------------------------------ cancel()
\* first loop: load m_write_index
McancelLoadWriteIndex ==
    /\ kpc \in {"idle", "k1_load"}
    /\ IF 0 > mp_write_index
       THEN kpc' = "k2_load" /\ kl' = NoKLocals
       ELSE kpc' = "k1_cas" /\ kl' = [index |-> mp_write_index]
    /\ UNCHANGED <<svars, sizeList, mp_write_index, mp_read_max_index, mp_read_index, mp_buffer,
                   pthreads, qscratch, qthread, mcancelReturned, mhist, pbudget>>

\* first loop: compare_exchange_strong(index, -1) on m_write_index, no notify
McancelCasWriteIndex ==
    /\ kpc = "k1_cas"
    /\ IF mp_write_index = kl.index
       THEN /\ mp_write_index' = -1
            /\ kpc' = "k2_load"
       ELSE /\ kpc' = "k1_load"
            /\ UNCHANGED mp_write_index
    /\ kl' = NoKLocals
    /\ UNCHANGED <<svars, sizeList, mp_read_max_index, mp_read_index, mp_buffer,
                   ppc, pl, pret, pseq, pafter, qscratch, qthread, mcancelReturned,
                   mhist, pbudget>>

\* second loop: load m_read_max_index
McancelLoadReadMax ==
    /\ kpc = "k2_load"
    /\ IF 0 > mp_read_max_index
       THEN kpc' = "k3_load" /\ kl' = NoKLocals
       ELSE kpc' = "k2_cas" /\ kl' = [index |-> mp_read_max_index]
    /\ UNCHANGED <<svars, sizeList, mp_write_index, mp_read_max_index, mp_read_index, mp_buffer,
                   pthreads, qscratch, qthread, mcancelReturned, mhist, pbudget>>

\* second loop: compare_exchange_strong(index, -1) on m_read_max_index, notify_all
McancelCasReadMax ==
    /\ kpc = "k2_cas"
    /\ IF mp_read_max_index = kl.index
       THEN /\ mp_read_max_index' = -1
            /\ kpc' = "k3_load"
            /\ qpc' = NotifyReadMax(qpc)
       ELSE /\ kpc' = "k2_load"
            /\ UNCHANGED <<mp_read_max_index, qpc>>
    /\ kl' = NoKLocals
    /\ UNCHANGED <<svars, sizeList, mp_write_index, mp_read_index, mp_buffer,
                   ppc, pl, pret, pseq, pafter, qscratch, ql, qret, qafter,
                   mcancelReturned, mhist, pbudget>>

\* third loop without it: cancel() returns after the second loop
McancelLoadReadIndex_Skip ==
    /\ kpc = "k3_load"
    /\ kpc' = "idle" /\ kl' = NoKLocals /\ mcancelReturned' = TRUE
    /\ UNCHANGED <<svars, sizeList, mp_write_index, mp_read_max_index, mp_read_index, mp_buffer,
                   pthreads, qscratch, qthread, mhist, pbudget>>

\* third loop: load m_read_index
McancelLoadReadIndex ==
    /\ kpc = "k3_load"
    /\ IF 0 > mp_read_index
       THEN kpc' = "idle" /\ kl' = NoKLocals /\ mcancelReturned' = TRUE
       ELSE kpc' = "k3_cas" /\ kl' = [index |-> mp_read_index]
            /\ UNCHANGED mcancelReturned
    /\ UNCHANGED <<svars, sizeList, mp_write_index, mp_read_max_index, mp_read_index, mp_buffer,
                   pthreads, qscratch, qthread, mhist, pbudget>>

\* m_read_index.notify_all() that wakes nobody
NotifyAllReadIndex_Lost(pcs) == pcs

\* m_read_index.notify_all(): every producer asleep on m_read_index
NotifyAllReadIndex(pcs) ==
    [p \in Producers |-> IF pcs[p] = "p_sleep" THEN "p_wait" ELSE pcs[p]]

\* third loop: compare_exchange_strong(index, -1) on m_read_index, notify_all
McancelCasReadIndex ==
    /\ kpc = "k3_cas"
    /\ IF mp_read_index = kl.index
       THEN /\ mp_read_index' = -1
            /\ kpc' = "idle"
            /\ mcancelReturned' = TRUE
            /\ ppc' = NotifyAllReadIndex(ppc)
       ELSE /\ kpc' = "k3_load"
            /\ UNCHANGED <<mp_read_index, mcancelReturned, ppc>>
    /\ kl' = NoKLocals
    /\ UNCHANGED <<svars, sizeList, mp_write_index, mp_read_max_index, mp_buffer,
                   pl, pret, pseq, pafter, qscratch, qthread, mhist, pbudget>>

\* ------------------------------------------------------ specifications
\* the num argument of peek/tryPeek
Nums == 1 .. max_size

MProducerStep(p) ==
    \/ \E wait \in BOOLEAN : PushCommon(p, wait)
    \/ PushLoadWriteIndex(p)
    \/ PushLoadReadIndex(p)
    \/ PushWait(p)
    \/ PushReserve(p)
    \/ PushStore(p)
    \/ PushPublish(p)

MConsumerStep ==
    \/ \E num \in Nums, wait \in BOOLEAN : PeekCommon(num, wait)
    \/ PeekLoop
    \/ PeekWait
    \/ CommitPopCommon
    \/ CommitPopNotify

McancelStep ==
    \/ McancelLoadWriteIndex
    \/ McancelCasWriteIndex
    \/ McancelLoadReadMax
    \/ McancelCasReadMax
    \/ McancelLoadReadIndex
    \/ McancelCasReadIndex

NextMpsc == (\E p \in Producers : MProducerStep(p)) \/ MConsumerStep

NextMpscCancel == (\E p \in Producers : MProducerStep(p)) \/ MConsumerStep \/ McancelStep

\* producers and the consumer, nobody cancels
SpecMpsc == InitM /\ [][NextMpsc]_vars

\* producers, the consumer and a thread that calls cancel()
SpecMpscCancel == InitMCancel /\ [][NextMpscCancel]_vars

\* the same, with every thread that is inside a call scheduled again and again
FairMpsc ==
    /\ \A p \in Producers : WF_vars(PInCall(p) /\ MProducerStep(p))
    /\ WF_vars(QInCall /\ MConsumerStep)
    /\ WF_vars(kpc # "idle" /\ McancelStep)

SpecMpscCancelFair == InitMCancel /\ [][NextMpscCancel]_vars /\ FairMpsc

\* A consumer that keeps calling peek and commitPop; the producers are as before,
\* nobody cancels.
MPeekPopStep ==
    \/ \E num \in Nums : PeekCommon(num, TRUE)
    \/ PeekLoop
    \/ PeekWait
    \/ CommitPopCommon
    \/ CommitPopNotify

NextMpscPeekPop == (\E p \in Producers : MProducerStep(p)) \/ MPeekPopStep

\* the consumer thread is scheduled again and again, between its calls too (it
\* keeps calling); a producer only while it is inside a call
FairMpscPeekPop ==
    /\ \A p \in Producers : WF_vars(PInCall(p) /\ MProducerStep(p))
    /\ WF_vars(MPeekPopStep)

SpecMpscPeekPopFair == InitM /\ [][NextMpscPeekPop]_vars /\ FairMpscPeekPop

\* ===================================================== either ring
\* A run uses one of the two rings, fixed when it starts: budget > 0 is a run of
\* BoundedSpscZeroCopy, budget = 0 a run of MpscRingBuffer; each with a thread
\* that calls cancel(), any number of times.
InitEitherCancel == InitCancel \/ InitMCancel

NextEitherCancel ==
    \/ budget > 0 /\ NextSpscCancel
    \/ budget = 0 /\ NextMpscCancel

SpecEitherCancel == InitEitherCancel /\ [][NextEitherCancel]_vars

\* =================================================== SPSC-ZC: properties
\* cells of the region the producer holds between getWritePtr and moveWritePtr
WRegion ==
    IF wpc = "w_hold"
    THEN m_write_im.write_index2 .. (m_write_im.write_index2 + m_write_im.avail - 1)
    ELSE {}

\* cells of the region the consumer holds between getReadPtr and moveReadPtr
RRegion ==
    IF rpc = "r_hold"
    THEN m_read_im.read_index2 .. (m_read_im.read_index2 + m_read_im.avail - 1)
    ELSE {}

\* cells that hold an element the producer committed and the consumer has not
UnreadCells ==
    {i \in DOMAIN m_buffer : Len(rlog) < m_buffer[i] /\ m_buffer[i] <= Len(wlog)}

IsPrefix(a, b) ==
    /\ Len(a) <= Len(b)
    /\ \A i \in 1 .. Len(a) : a[i] = b[i]

\* C1: with no cancel, the elements the consumer has committed so far are, in
\* the same order, a prefix of the elements the producer has committed so far.
C1_ByteIntegrity == IsPrefix(rlog, wlog)

\* more elements than the buffer holds went through it, across a flip of each side
C1_Witness ==
    /\ Len(rlog) > kMaxSize
    /\ rlog = wlog
    /\ decode_ctx(m_write_ctx)[1] < decode_ctx(m_write_ctx)[2]

\* C2: the region the producer holds is disjoint from the region the consumer
\* holds and contains no cell that is committed and not yet read.
C2_NoOverlap ==
    /\ WRegion \cap RRegion = {}
    /\ WRegion \cap UnreadCells = {}

\* both sides hold a region at once, the producer's in the back phase
C2_Witness ==
    /\ wpc = "w_hold" /\ rpc = "r_hold"
    /\ m_write_im.write_index2 < m_read_im.read_index2
    /\ Cardinality(WRegion) >= 1 /\ Cardinality(RRegion) >= 2

CancelledRet(r, op) == r = Ret(op, NULL, -1)

\* C7: once cancel() has returned, m_write_ctx decodes to (-1,-1) and
\* m_read_index is -1; a getWritePtr, moveWritePtr, getReadPtr or moveReadPtr
\* started afterwards returns -1 whatever its argument, and
\* waitUntilEmptyForWriter returns at once; none of them enters a loop.
C7_CancelTerminal ==
    /\ cancelReturned =>
          /\ decode_ctx(m_write_ctx) = <<-1, -1>>
          /\ m_read_index = -1
    /\ wafter =>
          /\ ~WInCall
          /\ \/ CancelledRet(wret, "getWritePtr")
             \/ CancelledRet(wret, "moveWritePtr")
             \/ wret = Ret("waitUntilEmptyForWriter", NULL, 0)
    /\ rafter =>
          /\ ~RInCall
          /\ \/ CancelledRet(rret, "getReadPtr")
             \/ CancelledRet(rret, "moveReadPtr")

\* after cancel() returned the producer tried to commit the region it held and
\* the consumer asked for a region
C7_Witness ==
    /\ cancelReturned
    /\ wafter /\ wret.op = "moveWritePtr" /\ m_write_im.avail > 0 /\ wpc = "idle"
    /\ rafter /\ rret.op = "getReadPtr"

\* C9: a getReadPtr, getWritePtr or waitUntilEmptyForWriter that is blocked
\* (waiting or asleep) while cancel() runs eventually returns, and an acquire
\* that was blocked on a word when cancel() stored the sentinel in it returns -1.
C9_CancelLiveness ==
    /\ (cpc # "idle" /\ RBlocked) ~> ~RInCall
    /\ (cpc # "idle" /\ WBlocked) ~> ~WInCall
    /\ [](rhit /\ ~RInCall => CancelledRet(rret, "getReadPtr"))
    /\ [](whit /\ ~WInCall => \/ CancelledRet(wret, "getWritePtr")
                              \/ wret = Ret("waitUntilEmptyForWriter", NULL, 0))

\* both sides were asleep when cancel() stored the sentinels, and both returned -1
C9_Witness ==
    /\ rhit /\ whit
    /\ CancelledRet(rret, "getReadPtr")
    /\ CancelledRet(wret, "getWritePtr")

\* ------------------------------------------------------ MPSC properties
RangeOf(seq) == {seq[i] : i \in DOMAIN seq}

NoDuplicates(seq) == \A i, j \in DOMAIN seq : seq[i] = seq[j] => i = j

\* the elements whose push/tryPush returned true
Acked == {e \in Producers \X (0 .. MaxPush) : e[2] < pseq[e[1]]}

\* the cells from index a up to, not including, index b, going round the ring
CyclicRange(a, b) ==
    IF a <= b THEN a .. (b - 1) ELSE (a .. (max_size - 1)) \cup (0 .. (b - 1))

\* the published cells the consumer has not committed
UnconsumedCells == CyclicRange(mp_read_index, mp_read_max_index)

\* the cells of the slice the consumer holds between peek and commitPop
HeldCells ==
    IF qpc = "k_hold"
    THEN m_read_index_expected .. (m_read_index_expected + ql.num - 1)
    ELSE {}

\* the elements of producer p among seq, in order
OfProducer(seq, p) == SelectSeq(seq, LAMBDA e : e[1] = p)

\* every call has returned, the consumer holds nothing and sees an empty ring
Quiescent ==
    /\ \A p \in Producers : ppc[p] = "idle"
    /\ qpc = "idle"
    /\ mp_read_index = mp_read_max_index

\* C3: in a run without cancel(), every element whose push/tryPush returned
\* true reaches the consumer exactly once and unchanged: the consumer commits
\* no element twice, commits only elements that were published, and an
\* element that was pushed and is not yet committed is still in a published,
\* unconsumed cell (or in the slice the consumer is committing).
C3_ExactlyOnce ==
    /\ NoDuplicates(delivered)
    /\ RangeOf(delivered) \subseteq RangeOf(published)
    /\ \A e \in Acked :
          \/ e \in RangeOf(delivered)
          \/ e \in RangeOf(ql.data)
          \/ \E i \in UnconsumedCells : mp_buffer[i] = e

\* C4: in a run without cancel(), the elements of one producer reach the
\* consumer in the order that producer pushed them, without gap and without
\* repeat (seq 0, 1, 2, ...), and once everything has returned and the ring
\* is drained the producer's last element has been seen.
C4_PerProducerFifo ==
    /\ \A p \in Producers :
          LET d == OfProducer(delivered, p) IN
          \A k \in DOMAIN d : d[k] = Elem(p, k - 1)
    /\ Quiescent =>
          \A p \in Producers : Len(OfProducer(delivered, p)) = pseq[p]

\* C5: every cell of a slice returned by peek/tryPeek has been stored by the
\* producer that reserved it, and no producer is about to store into a cell
\* of the slice the consumer holds.
C5_PublicationSafety ==
    \A i \in HeldCells :
        /\ owner[i] # NoElem
        /\ mp_buffer[i] = owner[i]
        /\ \A p \in Producers : ~(ppc[p] = "p_store" /\ pl[p].write_index = i)

\* C6: elements reach the consumer in the order in which the reservation
\* CASes succeeded, and they are published in that same order.
C6_ReservationOrder ==
    /\ IsPrefix(published, reserved)
    /\ IsPrefix(delivered, published)

\* C8: once cancel() has returned on the MPSC ring, the three indices are
\* negative and stay so; a push/tryPush that starts afterwards returns false,
\* a peek/tryPeek that starts afterwards returns -1 without waiting, and no
\* step taken afterwards changes an index, the committed elements or the
\* commit scratch, nor does a step of the consumer change the buffer.
C8_CancelTerminal ==
    /\ [](mcancelReturned =>
            /\ 0 > mp_write_index /\ 0 > mp_read_max_index /\ 0 > mp_read_index
            /\ \A p \in Producers : pafter[p] => (ppc[p] = "idle" /\ pret[p] = FALSE)
            /\ qafter => /\ qpc \in {"idle", "k_loop"}
                          /\ qpc = "idle" => qret = -1)
    /\ [][mcancelReturned =>
            /\ UNCHANGED <<mp_write_index, mp_read_max_index, mp_read_index>>
            /\ UNCHANGED <<delivered, m_read_index_expected, m_read_index_desired>>
            /\ (qpc' # qpc) => UNCHANGED mp_buffer]_vars

\* after cancel() returned, a producer has called push/tryPush again and the
\* consumer has called peek/tryPeek again, with a published element left in the ring
C8_Witness ==
    /\ mcancelReturned
    /\ \E p \in Producers : pafter[p] /\ ppc[p] = "idle" /\ pret[p] = FALSE
    /\ qafter /\ qpc = "idle" /\ qret = -1
    /\ Len(delivered) < Len(published)

\* a push that cancel() has cut off: in the reservation loop or asleep on
\* m_read_index with m_write_index already -1, or between its reservation and
\* its publish CAS with m_read_max_index already -1
PCancelled(p) ==
    \/ ppc[p] \in {"p_wi", "p_ri", "p_cas", "p_wait", "p_sleep"} /\ 0 > mp_write_index
    \/ ppc[p] \in {"p_store", "p_pub"} /\ 0 > mp_read_max_index

\* a peek that cancel() has cut off
QCancelled == qpc \in {"k_loop", "k_wait", "k_sleep"} /\ 0 > mp_read_max_index

C12_Conservation ==
    \A k \in 1 .. MaxBytes : (Len(wlog) >= k) ~> (Len(rlog) >= k)

\* the producer has committed all it may, the consumer has committed all of it
\* and sleeps in getReadPtr(1) on the empty ring
C12_Witness ==
    /\ Len(wlog) = MaxBytes
    /\ Len(rlog) = MaxBytes
    /\ rpc = "gr_sleep"

\* ================================================ SPSC-ZC: acquire results
GwPcs == {"gw_loop", "gw_flip", "gw_wait", "gw_sleep"}

GrPcs == {"gr_loop", "gr_flip", "gr_wait", "gr_sleep"}

\* the step is the return of a getWritePtr / getReadPtr that had entered its loop
WAcquireReturns == wpc \in GwPcs /\ wpc' \notin GwPcs

RAcquireReturns == rpc \in GrPcs /\ rpc' \notin GrPcs

\* r is a non-null region of at least one element and at least wantSize elements
IsRegion(r, wantSize) == r.ptr # NULL /\ r.val >= 1 /\ r.val >= wantSize

SpscCancelled(ctx, index) == IsNegative64(ctx) \/ 0 > index

\* C14: a getWritePtr(want) / getReadPtr(want) with 0 <= want <= kMaxSize/2 that
\* returns a non-null pointer returns avail >= 1 and avail >= want; a blocking
\* call (want >= 1) returns only such a region or, the ring being cancelled,
\* (nullptr, -1); only a call with want = 0 returns (nullptr, 0).
C14_AcquireResult ==
    /\ [][WAcquireReturns =>
            \/ IsRegion(wret', wl.want) /\ wpc' = "w_hold"
            \/ /\ wret' = Ret("getWritePtr", NULL, -1)
               /\ SpscCancelled(m_write_ctx', m_read_index')
            \/ wl.want = 0 /\ wret' = Ret("getWritePtr", NULL, 0)]_vars
    /\ [][RAcquireReturns =>
            \/ IsRegion(rret', rl.want) /\ rpc' = "r_hold"
            \/ /\ rret' = Ret("getReadPtr", NULL, -1)
               /\ SpscCancelled(m_write_ctx', m_read_index')
            \/ rl.want = 0 /\ rret' = Ret("getReadPtr", NULL, 0)]_vars

\* both sides hold a region and nothing is cancelled: the producer one element
\* at the start of the buffer after its flip, the consumer kMaxSize/2 elements
C14_Witness ==
    /\ wpc = "w_hold" /\ wret = Ret("getWritePtr", 0, 1)
    /\ rpc = "r_hold" /\ rret = Ret("getReadPtr", kMaxSize \div 2, kMaxSize \div 2)
    /\ ~SpscCancelled(m_write_ctx, m_read_index)

\* the loop positions in the order a non-blocking call passes through them
AcquireRank(pc) ==
    IF pc \in {"gw_loop", "gr_loop"} THEN 2
    ELSE IF pc \in {"gw_flip", "gr_flip"} THEN 1
    ELSE 0

\* C15: getWritePtr(0) and getReadPtr(0) never wait or sleep on an atomic; each
\* step of such a call moves it forward (loop, then at most the flip, then the
\* return), so it returns after at most three steps of its own; it returns a
\* region of at least one element, (nullptr, 0), or (nullptr, -1) on a cancelled ring.
C15_NonBlockingAcquire ==
    /\ [](wpc \in GwPcs /\ wl.want = 0 => wpc \in {"gw_loop", "gw_flip"})
    /\ [](rpc \in GrPcs /\ rl.want = 0 => rpc \in {"gr_loop", "gr_flip"})
    /\ [][(wl.want = 0 /\ (GetWritePtrLoop \/ GetWritePtrFlip)) =>
            AcquireRank(wpc') < AcquireRank(wpc)]_vars
    /\ [][(rl.want = 0 /\ (GetReadPtrLoop \/ GetReadPtrFlip)) =>
            AcquireRank(rpc') < AcquireRank(rpc)]_vars
    /\ [][(wl.want = 0 /\ WAcquireReturns) =>
            \/ wret'.ptr # NULL /\ wret'.val >= 1
            \/ wret' = Ret("getWritePtr", NULL, 0)
            \/ wret' = Ret("getWritePtr", NULL, -1)
               /\ SpscCancelled(m_write_ctx', m_read_index')]_vars
    /\ [][(rl.want = 0 /\ RAcquireReturns) =>
            \/ rret'.ptr # NULL /\ rret'.val >= 1
            \/ rret' = Ret("getReadPtr", NULL, 0)
            \/ rret' = Ret("getReadPtr", NULL, -1)
               /\ SpscCancelled(m_write_ctx', m_read_index')]_vars

\* getWritePtr(0) has returned Empty on the full ring and, the consumer having
\* read everything since, getReadPtr(0) has returned Empty too
C15_Witness ==
    /\ wpc = "idle" /\ wret = Ret("getWritePtr", NULL, 0)
    /\ rpc = "idle" /\ rret = Ret("getReadPtr", NULL, 0)
    /\ Len(rlog) = Len(wlog) /\ Len(wlog) >= 1
    /\ ~SpscCancelled(m_write_ctx, m_read_index)

\* the labelled state of the ring, a function of the two atomics
getState(ctx, read_index) ==
    LET write_index == decode_ctx(ctx)[1] IN
    IF read_index <= write_index
    THEN IF write_index = read_index
         THEN (IF read_index = 0 THEN "E0" ELSE "E1")
         ELSE IF read_index = 0
         THEN (IF write_index = kMaxSize THEN "F0" ELSE "X0")
         ELSE "X1"
    ELSE IF read_index - 1 = write_index THEN "F1"
    ELSE IF write_index = 0 THEN "Y0"
    ELSE "Y1"

\* everything but the return value of the producer / consumer and its history
WRest == <<m_write_ctx, m_read_index, m_write_im, m_read_im, m_buffer, wpc, wl,
           rpc, rl, rret, cpc, cl, cancelReturned, wlog, rlog>>

RRest == <<m_write_ctx, m_read_index, m_write_im, m_read_im, m_buffer, wpc, wl, wret,
           rpc, rl, cpc, cl, cancelReturned, wlog, rlog>>

\* C16: getWritePtr(want) and getReadPtr(want) with want > kMaxSize/2 return
\* (nullptr, -1) in one step, whatever the state of the ring, and change neither
\* m_write_ctx nor m_read_index nor the labelled state nor anything else the
\* later operations read: the ring goes on as if the call had not been made.
C16_TooLarge ==
    /\ [][\A want \in Wants : (kMaxSize \div 2 < want /\ GetWritePtr(want)) =>
            /\ wret' = Ret("getWritePtr", NULL, -1)
            /\ getState(m_write_ctx', m_read_index') = getState(m_write_ctx, m_read_index)
            /\ UNCHANGED WRest]_vars
    /\ [][\A want \in Wants : (kMaxSize \div 2 < want /\ GetReadPtr(want)) =>
            /\ rret' = Ret("getReadPtr", NULL, -1)
            /\ getState(m_write_ctx', m_read_index') = getState(m_write_ctx, m_read_index)
            /\ UNCHANGED RRest]_vars

\* nothing is cancelled, so the -1 of both acquires is TooLarge; the ring is in
\* its back phase with elements still to read and the consumer has read some
C16_Witness ==
    /\ ~SpscCancelled(m_write_ctx, m_read_index)
    /\ cpc = "idle" /\ ~cancelReturned
    /\ wpc = "idle" /\ wret = Ret("getWritePtr", NULL, -1)
    /\ rpc = "idle" /\ rret = Ret("getReadPtr", NULL, -1)
    /\ getState(m_write_ctx, m_read_index) = "Y1"
    /\ Len(rlog) >= 1

\* commit sizes up to one more than the largest region
AllSizes == 0 .. (kMaxSize + 1)

\* C17: the stashed avail is the avail of the most recent acquire of that side
\* while its region is held, and 0 before any acquire and after the region was
\* committed; a moveWritePtr(n) / moveReadPtr(n) with n greater than it returns
\* -1 and changes neither m_write_ctx nor m_read_index (nor the stash, the
\* buffer or the position of any thread).
C17_Overcommit ==
    /\ [](wpc = "w_hold" /\ wret.op = "getWritePtr" => m_write_im.avail = wret.val)
    /\ [](rpc = "r_hold" /\ rret.op = "getReadPtr" => m_read_im.avail = rret.val)
    /\ [](wpc = "idle" /\ ~SpscCancelled(m_write_ctx, m_read_index) => m_write_im.avail = 0)
    /\ [](rpc = "idle" /\ ~SpscCancelled(m_write_ctx, m_read_index) => m_read_im.avail = 0)
    /\ [][\A n \in AllSizes : (m_write_im.avail < n /\ MoveWritePtr(n)) =>
            /\ wret' = Ret("moveWritePtr", NULL, -1)
            /\ UNCHANGED WRest]_vars
    /\ [][\A n \in AllSizes : (m_read_im.avail < n /\ MoveReadPtr(n)) =>
            /\ rret' = Ret("moveReadPtr", NULL, -1)
            /\ UNCHANGED RRest]_vars

\* the producer has overcommitted the region it still holds; the consumer has
\* committed its region and then committed once more; nothing is cancelled
C17_Witness ==
    /\ ~SpscCancelled(m_write_ctx, m_read_index)
    /\ wpc = "w_hold" /\ wret = Ret("moveWritePtr", NULL, -1) /\ m_write_im.avail >= 1
    /\ rpc = "idle" /\ rret = Ret("moveReadPtr", NULL, -1) /\ m_read_im.avail = 0
    /\ Len(rlog) >= 1

\* C18: when waitUntilEmptyForWriter has returned and the ring is not cancelled,
\* the consumer has committed every element the producer committed before the
\* call (the producer commits nothing during it), whatever the phase of the ring.
C18_WaitUntilEmpty ==
    (/\ wpc = "idle"
     /\ wret = Ret("waitUntilEmptyForWriter", NULL, 0)
     /\ ~SpscCancelled(m_write_ctx, m_read_index))
    => Len(rlog) = Len(wlog)

\* ================================================ SPSC-ZC: blocking wake-up
\* what check_read_available / check_write_available give on the atomics as they are
ReadableNow ==
    check_read_available(decode_ctx(m_write_ctx)[1], decode_ctx(m_write_ctx)[2],
                         m_read_index)[1]

WritableNow ==
    check_write_available(decode_ctx(m_write_ctx)[1], m_read_index, kMaxSize)[1]

\* C24: with no cancel, a getReadPtr(want), want >= 1, that is inside its loop
\* (waiting or asleep included) when want contiguous elements are readable
\* returns a region, and a getWritePtr(want) that is inside its loop when want
\* contiguous cells are free returns a region: the wake-up of the commit that
\* made them so is not lost.
C24_BlockingWakeUp ==
    /\ (rpc \in GrPcs /\ rl.want >= 1 /\ ReadableNow >= rl.want) ~> (rpc = "r_hold")
    /\ (wpc \in GwPcs /\ wl.want >= 1 /\ WritableNow >= wl.want) ~> (wpc = "w_hold")
    /\ [][RAcquireReturns /\ rl.want >= 1 =>
            rpc' = "r_hold" /\ IsRegion(rret', rl.want)]_vars
    /\ [][WAcquireReturns /\ wl.want >= 1 /\ ~TooLarge(wl.want) =>
            wpc' = "w_hold" /\ IsRegion(wret', wl.want)]_vars

\* the consumer is at the wait of getReadPtr(want), want >= 2, after a commit of
\* the producer has changed m_write_ctx and made want elements readable; the
\* producer is at the wait of getWritePtr with m_read_index changed since its check
C24_Witness ==
    /\ rpc = "gr_wait" /\ rl.want >= 2
    /\ m_write_ctx # rl.write_ctx /\ ReadableNow >= rl.want
    /\ wpc = "gw_wait" /\ wl.want >= 1
    /\ m_read_index # wl.read_index

\* ========================================== SPSC-ZC: check_write_available
\* the free space as the specification words it
WriteAvailableRef(w, re, r) ==
    LET suffix == kMaxSize - w
        prefix == r - 1
    IN IF r <= w
       THEN IF suffix < prefix
            THEN [avail |-> prefix, flip |-> TRUE, write_index |-> 0, read_end_index |-> w]
            ELSE [avail |-> suffix, flip |-> FALSE, write_index |-> w, read_end_index |-> re]
       ELSE [avail |-> r - w - 1, flip |-> FALSE, write_index |-> w, read_end_index |-> re]

\* C26: for every write_index and read_index in 0 .. kMaxSize,
\* check_write_available returns the reference: in the front phase
\* (read_index <= write_index) the suffix kMaxSize - write_index, unless it is
\* smaller than the prefix read_index - 1, and then the prefix with new write
\* index 0 (a tie stays in the front); in the back phase
\* read_index - write_index - 1 and no new index. getWritePtr hands out, or
\* goes on to publish, write index 0 and read end index = the old write index
\* exactly on a flip, and the unchanged indices otherwise.
C26_WriteAvailable ==
    LET w == decode_ctx(m_write_ctx)[1]
        re == decode_ctx(m_write_ctx)[2]
        ref == WriteAvailableRef(w, re, m_read_index)
    IN /\ check_write_available(w, m_read_index, kMaxSize)
            = <<ref.avail, IF ref.flip THEN 0 ELSE -1>>
       /\ wpc = "w_hold" =>
            /\ m_write_im.avail = ref.avail
            /\ m_write_im.write_index2 = ref.write_index
            /\ m_write_im.read_end_index2 = ref.read_end_index
       /\ wpc = "gw_flip" =>
            /\ ref.flip
            /\ wl.write_index2 = ref.write_index
            /\ wl.read_end_index2 = ref.read_end_index

\* write_index = kMaxSize - 1, read_index = kMaxSize - 1: the suffix of one cell
\* is smaller than the prefix, and getWritePtr(2) hands out the front
C26_Witness ==
    /\ wpc = "w_hold"
    /\ decode_ctx(m_write_ctx)[1] = kMaxSize - 1 /\ m_read_index = kMaxSize - 1
    /\ m_write_im.write_index2 = 0 /\ m_write_im.avail = kMaxSize - 2
    /\ wret = Ret("getWritePtr", 0, kMaxSize - 2)
    /\ sizeList = <<>> /\ wlog = <<>>

\* =========================================== SPSC-ZC: check_read_available
\* the readable elements as the specification words them
ReadAvailableRef(w, re, r) ==
    IF r <= w
    THEN [avail |-> w - r, flip |-> FALSE, read_index |-> r]
    ELSE IF re - r = 0
         THEN [avail |-> w, flip |-> TRUE, read_index |-> 0]
         ELSE [avail |-> re - r, flip |-> FALSE, read_index |-> r]

\* number of committed and unread elements that lie in consecutive cells from
\* cell pos on: the next unread element is wlog[Len(rlog) + 1]
ContigUnread(pos) ==
    Cardinality({n \in 1 .. kMaxSize :
        \A k \in 0 .. n - 1 :
            /\ pos + k < kMaxSize
            /\ Len(rlog) + k + 1 <= Len(wlog)
            /\ BufAt(pos + k) = wlog[Len(rlog) + k + 1]})

\* C27: in every reachable state without cancel, check_read_available on the
\* current indices returns write_index - read_index and no new index in the
\* front phase, read_end_index - read_index in the back phase, and when that is
\* 0 the new read index 0 with avail = write_index; the value is the number of
\* committed, unread elements that lie contiguously from the (new) read
\* position; and a region handed out by getReadPtr starts at that position and
\* has that length.
C27_ReadAvailable ==
    /\ [](LET w == decode_ctx(m_write_ctx)[1]
              re == decode_ctx(m_write_ctx)[2]
              ref == ReadAvailableRef(w, re, m_read_index)
          IN /\ check_read_available(w, re, m_read_index)
                  = <<ref.avail, IF ref.flip THEN 0 ELSE -1>>
             /\ ref.avail = ContigUnread(ref.read_index))
    /\ [][RAcquireReturns /\ rpc' = "r_hold" =>
            LET w == decode_ctx(m_write_ctx)[1]
                re == decode_ctx(m_write_ctx)[2]
                ref == ReadAvailableRef(w, re, m_read_index)
            IN /\ rret' = Ret("getReadPtr", ref.read_index, ref.avail)
               /\ m_read_im'.read_index2 = ref.read_index
               /\ m_read_im'.avail = ContigUnread(ref.read_index)]_vars

\* the consumer holds a region at the front of the buffer that it was handed
\* out on a flip: m_read_index still equals read_end_index
C27_Witness ==
    /\ rpc = "r_hold" /\ rret.ptr = 0 /\ rret.val >= 1
    /\ m_read_index = decode_ctx(m_write_ctx)[2]
    /\ decode_ctx(m_write_ctx)[1] < m_read_index
    /\ ContigUnread(0) >= 1 /\ ContigUnread(m_read_index) = 0

\* ================================================ SPSC-ZC: flip before wait
WSleeps == wpc \in {"gw_wait", "gw_sleep"}

RSleeps == rpc \in {"gr_wait", "gr_sleep"}

\* C28: no thread waits inside an acquire with a flip it computed and did not
\* publish. getWritePtr goes from the region test straight to the wait only
\* when check_write_available computed no flip; otherwise it first stores
\* (0, old write_index) in m_write_ctx, and while it waits m_write_ctx holds the
\* write_ctx it works with. getReadPtr goes straight to the wait only when
\* check_read_available computed no flip; otherwise it first stores 0 in
\* m_read_index, and while it waits m_read_index holds the read_index it works
\* with.
C28_FlipBeforeWait ==
    /\ [][wpc = "gw_loop" /\ wpc' = "gw_wait" =>
            check_write_available(wl.write_index, m_read_index, kMaxSize)[2] < 0]_vars
    /\ [][wpc = "gw_flip" /\ wpc' = "gw_wait" =>
            m_write_ctx' = encode_ctx(0, wl.write_index)]_vars
    /\ [](WSleeps =>
            /\ m_write_ctx = wl.write_ctx
            /\ decode_ctx(m_write_ctx) = <<wl.write_index, wl.read_end_index>>
            /\ check_write_available(wl.write_index, wl.read_index, kMaxSize)[2] < 0
            /\ wl.read_end_index2 > 0 => m_write_ctx = encode_ctx(0, wl.read_end_index2))
    /\ [][rpc = "gr_loop" /\ rpc' = "gr_wait" =>
            check_read_available(decode_ctx(m_write_ctx)[1], decode_ctx(m_write_ctx)[2],
                                 rl.read_index)[2] < 0]_vars
    /\ [][rpc = "gr_flip" /\ rpc' = "gr_wait" => m_read_index' = 0]_vars
    /\ [](RSleeps =>
            /\ m_read_index = rl.read_index
            /\ check_read_available(decode_ctx(rl.write_ctx)[1], decode_ctx(rl.write_ctx)[2],
                                    rl.read_index)[2] < 0)

\* the producer is at its wait after publishing the flip (0, kMaxSize) and the
\* consumer at its wait after publishing its own flip to read index 0
C28_Witness ==
    /\ WSleeps /\ wl.read_end_index2 = kMaxSize
    /\ m_write_ctx = encode_ctx(0, kMaxSize)
    /\ RSleeps /\ m_read_index = 0 /\ rl.write_ctx = m_write_ctx
    /\ Len(rlog) = kMaxSize

\* ======================================================= SPSC-ZC: geometry
\* auto avail = read_end_index - read_index, the operand of PT_ASSERT(0 <= avail)
BackAvail(read_end_index, read_index) == read_end_index - read_index

\* getReadPtr evaluates check_read_available in this step
ChecksReadAvailable == rpc = "gr_loop" /\ rpc' # "gr_loop" /\ 0 <= decode_ctx(m_write_ctx)[1]

\* C29: in every state without cancel 0 <= write_index <= kMaxSize and
\* 0 <= read_index <= kMaxSize, and in the back phase (write_index < read_index)
\* read_index <= read_end_index <= kMaxSize; whenever getReadPtr evaluates
\* check_read_available in the back phase, read_end_index - read_index is not
\* negative (the assertion holds).
C29_Geometry ==
    /\ [](LET w == decode_ctx(m_write_ctx)[1]
              re == decode_ctx(m_write_ctx)[2]
          IN /\ 0 <= w /\ w <= kMaxSize
             /\ 0 <= m_read_index /\ m_read_index <= kMaxSize
             /\ w < m_read_index => m_read_index <= re /\ re <= kMaxSize)
    /\ [][ChecksReadAvailable /\ ~is_front_side(decode_ctx(m_write_ctx)[1], rl.read_index) =>
            0 <= BackAvail(decode_ctx(m_write_ctx)[2], rl.read_index)]_vars

\* back phase with everything up to read_end_index read and the end of the
\* buffer not reached: write_index < read_index = read_end_index < kMaxSize, and
\* getReadPtr has just evaluated check_read_available there
C29_Witness ==
    /\ decode_ctx(m_write_ctx)[1] >= 1
    /\ decode_ctx(m_write_ctx)[1] < m_read_index
    /\ m_read_index = decode_ctx(m_write_ctx)[2]
    /\ decode_ctx(m_write_ctx)[2] < kMaxSize
    /\ rpc = "r_hold" /\ m_read_im.read_index = m_read_index /\ m_read_im.read_index2 = 0
    /\ wpc = "idle"

\* ================================================== SPSC-ZC: empty and full
\* the producer stores a write index that lies below the one it replaces, or moves
\* it in the back phase
WritesBelowReader ==
    /\ decode_ctx(m_write_ctx')[1] # decode_ctx(m_write_ctx)[1]
    /\ \/ decode_ctx(m_write_ctx)[1] < m_read_index
       \/ decode_ctx(m_write_ctx')[1] < decode_ctx(m_write_ctx)[1]

\* C30: in every state without cancel, read_index = write_index only when no
\* committed element is unread; and a step of the producer that moves
\* write_index in the back phase, or takes it back to the front, leaves it at
\* read_index - 1 or below: write_index never reaches read_index from below.
C30_EmptyFull ==
    /\ [](m_read_index = decode_ctx(m_write_ctx)[1] =>
            Len(rlog) = Len(wlog) /\ UnreadCells = {})
    /\ [][WritesBelowReader => decode_ctx(m_write_ctx')[1] <= m_read_index' - 1]_vars

\* the producer has filled the back phase up to the reserved cell:
\* write_index = read_index - 1, and one more element would make the indices equal
C30_Witness ==
    /\ decode_ctx(m_write_ctx)[1] = m_read_index - 1
    /\ decode_ctx(m_write_ctx)[1] >= 2
    /\ Len(wlog) - Len(rlog) = decode_ctx(m_write_ctx)[2] - 1
    /\ wpc = "idle" /\ wret = Ret("moveWritePtr", NULL, 1)

\* ==================================== SPSC-ZC: write_index = read_index = end
\* w == r == r_end == max_size, the state the test reaches by draining Full0
AtEnd == decode_ctx(m_write_ctx)[1] = kMaxSize /\ m_read_index = kMaxSize

\* a loop turn of getWritePtr / getReadPtr that ends the turn
WTurn == wpc = "gw_loop" /\ wpc' # "gw_loop"

RTurn == rpc = "gr_loop" /\ rpc' # "gr_loop"

\* C31: in the state write_index = read_index = kMaxSize (reachable: fill the
\* empty ring from offset 0, drain it) the consumer sees no element and
\* getReadPtr hands out nothing; the next getWritePtr hands out offset 0 with
\* avail = kMaxSize - 1; and once the producer has committed n elements there
\* (read_index still kMaxSize) the consumer's flip finds exactly these n
\* elements at offset 0, and what the consumer commits is what the producer
\* committed, in order.
C31_EndState ==
    /\ [](AtEnd => ReadableNow = 0 /\ Len(rlog) = Len(wlog))
    /\ [][AtEnd /\ RTurn => rpc' # "r_hold"]_vars
    /\ [][AtEnd /\ WTurn =>
            /\ wpc' = "w_hold"
            /\ wret' = Ret("getWritePtr", 0, kMaxSize - 1)]_vars
    /\ [](m_read_index = kMaxSize /\ decode_ctx(m_write_ctx)[1] < kMaxSize =>
            /\ check_read_available(decode_ctx(m_write_ctx)[1], decode_ctx(m_write_ctx)[2],
                                    m_read_index) = <<decode_ctx(m_write_ctx)[1], 0>>
            /\ ContigUnread(0) = decode_ctx(m_write_ctx)[1]
            /\ Len(wlog) - Len(rlog) = decode_ctx(m_write_ctx)[1])
    /\ [](IsPrefix(rlog, wlog))

\* the ring was filled and drained (read_index = kMaxSize), the producer wrote
\* kMaxSize - 1 elements at offset 0, and the consumer holds them
C31_Witness ==
    /\ m_read_index = kMaxSize
    /\ m_write_ctx = encode_ctx(kMaxSize - 1, kMaxSize)
    /\ Len(rlog) = kMaxSize /\ Len(wlog) = 2 * kMaxSize - 1
    /\ rpc = "r_hold" /\ rret = Ret("getReadPtr", 0, kMaxSize - 1)
    /\ \A i \in 0 .. kMaxSize - 2 : m_buffer[i] = kMaxSize + 1 + i

\* ================================================ SPSC-ZC: matching chunks
BothAsleep == wpc = "gw_sleep" /\ rpc = "gr_sleep"

WCommits == wpc = "w_hold" /\ wpc' # "w_hold"

RCommits == rpc = "r_hold" /\ rpc' # "r_hold"

\* C25: when the producer does getWritePtr(s_i), moveWritePtr(s_i) and the
\* consumer getReadPtr(s_i), moveReadPtr(s_i) for the same list of sizes s_i in
\* 1 .. kMaxSize/2 and nobody cancels, no state has both sides asleep, every
\* acquire returns a region (of at least s_i elements), every commit returns
\* s_i, and all the chunks go through.
C25_MatchingChunks ==
    /\ [](~BothAsleep)
    /\ (wpc \in GwPcs) ~> (wpc = "w_hold")
    /\ (rpc \in GrPcs) ~> (rpc = "r_hold")
    /\ [][WAcquireReturns => wpc' = "w_hold" /\ IsRegion(wret', wl.want)]_vars
    /\ [][RAcquireReturns => rpc' = "r_hold" /\ IsRegion(rret', rl.want)]_vars
    /\ [][WCommits => wret' = Ret("moveWritePtr", NULL, sizeList[WChunk + 1])]_vars
    /\ [][RCommits => rret' = Ret("moveReadPtr", NULL, sizeList[RChunk + 1])]_vars
    /\ <>(RChunk = NumChunks /\ rpc = "idle")

\* all the chunks went through, chunks of one and of two elements among them,
\* the last one read from the front of the buffer after the consumer's flip
C25_Witness ==
    /\ WChunk = NumChunks /\ RChunk = NumChunks /\ rpc = "idle"
    /\ \E i, j \in 1 .. NumChunks : sizeList[i] = 1 /\ sizeList[j] = kMaxSize \div 2
    /\ m_read_index <= sizeList[NumChunks]

\* ============================================= SPSC-ZC: transition tables
\* the table of the test: the states one write leads to
WriterTable(state) ==
    CASE state = "E0" -> {"F0", "X0"}
      [] state = "E1" -> {"X1", "Y1", "F1"}
      [] state = "F0" -> {}
      [] state = "F1" -> {}
      [] state = "X0" -> {"F0", "X0"}
      [] state = "X1" -> {"X1", "Y1", "F1"}
      [] state = "Y0" -> {"F1", "Y1"}
      [] state = "Y1" -> {"Y1", "F1"}

\* moveWritePtr(n), n >= 1, succeeds, and the consumer has not moved m_read_index
\* since the getWritePtr that handed out the region
WritesWithReaderIdle ==
    /\ WCommits /\ wret'.val >= 1
    /\ m_write_im.read_index = m_read_index

\* C32: with the consumer idle, getWritePtr followed by moveWritePtr(n), n >= 1,
\* takes the ring from E0 to F0 or X0, from E1 to X1, Y1 or F1, from X0 to F0 or
\* X0, from X1 to X1, Y1 or F1, from Y0 to F1 or Y1, from Y1 to Y1 or F1, and
\* nowhere else; in F0 and F1 no region is handed out, and getWritePtr(0)
\* returns (nullptr, 0) and changes neither atomic.
C32_WriterTable ==
    /\ [][WritesWithReaderIdle =>
            getState(m_write_ctx', m_read_index')
                \in WriterTable(getState(m_write_ctx, m_read_index))]_vars
    /\ [][WTurn /\ getState(m_write_ctx, m_read_index) \in {"F0", "F1"} =>
            /\ wpc' # "w_hold"
            /\ m_write_ctx' = m_write_ctx /\ m_read_index' = m_read_index
            /\ wl.want = 0 => wret' = Ret("getWritePtr", NULL, 0)]_vars

\* E1 -> F1, which the test notes happens only from r == w == max_size: the
\* producer has just committed kMaxSize - 1 elements at offset 0
C32_Witness ==
    /\ wpc = "idle" /\ wret = Ret("moveWritePtr", NULL, kMaxSize - 1)
    /\ getState(m_write_ctx, m_read_index) = "F1"
    /\ m_read_index = kMaxSize /\ rpc = "idle"
    /\ Len(wlog) = 2 * kMaxSize - 1

\* the table of the test: the states one read leads to
ReaderTable(state) ==
    CASE state = "E0" -> {}
      [] state = "E1" -> {}
      [] state = "F0" -> {"E1", "X1"}
      [] state = "F1" -> {"X0", "X1", "E1"}
      [] state = "X0" -> {"E1", "X1"}
      [] state = "X1" -> {"E1", "X1"}
      [] state = "Y0" -> {"E0", "Y0"}
      [] state = "Y1" -> {"X0", "Y1"}

\* moveReadPtr(n), n >= 1, succeeds, and the producer has not changed m_write_ctx
\* since the getReadPtr that handed out the region
ReadsWithWriterIdle ==
    /\ RCommits /\ rret'.val >= 1
    /\ encode_ctx(m_read_im.write_index, m_read_im.read_end_index) = m_write_ctx

\* in E0 and E1 no region is handed out, and getReadPtr(0) returns (nullptr, 0)
\* and changes neither atomic
ReadsNothingWhenEmpty ==
    [][RTurn /\ getState(m_write_ctx, m_read_index) \in {"E0", "E1"} =>
            /\ rpc' # "r_hold"
            /\ m_write_ctx' = m_write_ctx /\ m_read_index' = m_read_index
            /\ rl.want = 0 => rret' = Ret("getReadPtr", NULL, 0)]_vars

AtReadEnd ==
    /\ decode_ctx(m_write_ctx)[1] < m_read_index
    /\ m_read_index = decode_ctx(m_write_ctx)[2]

WrapPoint ==
    /\ decode_ctx(m_write_ctx)[1] = m_read_index
    /\ decode_ctx(m_write_ctx)[2] = m_read_index
    /\ kMaxSize - m_read_index < m_read_index - 1

\* the producer has committed at offset 0 and the consumer is still at
\* read_end_index
Wrapped ==
    /\ 1 <= decode_ctx(m_write_ctx)[1]
    /\ decode_ctx(m_write_ctx)[1] < m_read_index
    /\ decode_ctx(m_write_ctx)[2] = m_read_index

WReturnsEmpty ==
    wpc \in {"gw_loop", "gw_flip"} /\ wpc' = "idle" /\ wret' = Ret("getWritePtr", NULL, 0)

RReturnsEmpty ==
    rpc \in {"gr_loop", "gr_flip"} /\ rpc' = "idle" /\ rret' = Ret("getReadPtr", NULL, 0)

\* what the consumer loaded in this call: the back phase is read to its end
\* and the producer, already at offset 0, has committed nothing there
SawDrainedBack ==
    /\ decode_ctx(rl.write_ctx)[1] = 0
    /\ 0 < m_read_index
    /\ m_read_index = decode_ctx(rl.write_ctx)[2]

WGetsRegion == wpc # "w_hold" /\ wpc' = "w_hold"

RGetsRegion == rpc # "r_hold" /\ rpc' = "r_hold"

NotCancelled == 0 <= m_read_index /\ 0 <= decode_ctx(m_write_ctx)[1]

\* check_write_available on the empty configurations of a ring of c elements:
\* write_index = read_index = p, and write_index = 0 with read_index = p still
\* at the read_end_index the producer left behind
EmptyAdmits(c) ==
    \A p \in 0 .. c :
        /\ check_write_available(p, p, c)[1] >= c \div 2
        /\ c - p < p - 1 => check_write_available(0, p, c)[1] >= c \div 2

\* C37: in every state that is not cancelled and has no committed element
\* unread, a turn of getWritePtr(want), 1 <= want <= kMaxSize / 2, hands out a
\* region inside the buffer with avail >= want, without going to wait; and
\* check_write_available offers at least half the capacity in every empty
\* configuration of a ring of 2 .. 2 * kMaxSize elements.
C37_EmptyAdmits ==
    /\ [][WTurn /\ NotCancelled /\ Len(rlog) = Len(wlog) /\ 1 <= wl.want =>
            /\ wpc' = "w_hold"
            /\ wret'.op = "getWritePtr"
            /\ wret'.ptr \in 0 .. kMaxSize - 1
            /\ wret'.val >= wl.want
            /\ wret'.ptr + wret'.val <= kMaxSize]_vars
    /\ [](\A c \in 2 .. 2 * kMaxSize : EmptyAdmits(c))

\* the producer published its flip at the end of the buffer and slept, the
\* consumer drained the ring without flipping, and the producer's next turn
\* was handed offset 0
C37_Witness ==
    /\ m_write_ctx = encode_ctx(0, kMaxSize)
    /\ m_read_index = kMaxSize
    /\ wpc = "w_hold" /\ wret = Ret("getWritePtr", 0, kMaxSize - 1)
    /\ Len(rlog) = kMaxSize /\ Len(wlog) = kMaxSize

\* ============================================ SPSC-ZC: regions in the buffer
\* a returned pair (ptr, avail) that lies inside m_buffer
InBuffer(r) == 0 <= r.ptr /\ 1 <= r.val /\ r.ptr + r.val <= kMaxSize

\* C38: every region getWritePtr or getReadPtr hands out starts at an offset
\* >= 0 and ends at or before kMaxSize, in every reachable state; so does
\* the region the next commit may use (m_write_im, m_read_im).
C38_RegionsInBuffer ==
    /\ [][WGetsRegion => wret'.op = "getWritePtr" /\ InBuffer(wret')]_vars
    /\ [][RGetsRegion => rret'.op = "getReadPtr" /\ InBuffer(rret')]_vars
    /\ [](/\ 0 <= m_write_im.write_index2 /\ 0 <= m_write_im.avail
          /\ m_write_im.write_index2 + m_write_im.avail <= kMaxSize)
    /\ [](/\ 0 <= m_read_im.read_index2 /\ 0 <= m_read_im.avail
          /\ m_read_im.read_index2 + m_read_im.avail <= kMaxSize)

\* the producer holds the last cell of the buffer and the consumer a region
\* that ends just before it
C38_Witness ==
    /\ wpc = "w_hold" /\ wret = Ret("getWritePtr", kMaxSize - 1, 1)
    /\ rpc = "r_hold" /\ rret.ptr + rret.val = kMaxSize - 1 /\ 1 <= rret.ptr

\* ======================================================= MPSC: liveness
\* the producer p is inside the full-ring loop of a blocking push
InPush(p) == PInCall(p) /\ pl[p].wait

\* C13: with no cancel and a consumer that keeps calling peek and commitPop,
\* every call of push returns true: a blocking push never returns from its
\* full-ring loop, it eventually reserves a cell (a producer asleep on
\* m_read_index is woken once there is space), and the call then returns true.
C13_PushLiveness ==
    /\ \A p \in Producers : InPush(p) ~> (ppc[p] = "p_store")
    /\ \A p \in Producers : (ppc[p] = "p_store") ~> (ppc[p] = "idle" /\ pret[p] = TRUE)
    /\ [][\A p \in Producers : InPush(p) => ppc'[p] # "idle"]_vars

\* ================================================= MPSC: return values
MpscCancelled(write_index, read_max_index, read_index) ==
    0 > write_index \/ 0 > read_max_index \/ 0 > read_index

\* the step is the return of the call of producer p, past its entry, with val
PushReturns(p, val) == ppc[p] # "idle" /\ ppc'[p] = "idle" /\ pret'[p] = val

\* the full test of pushCommon on the values producer p has loaded
ObservedFull(p) ==
    ppc[p] = "p_ri" /\ (pl[p].write_index + 1) % max_size = mp_read_index

\* a push / tryPush returns false only on a cancelled ring, or, for tryPush
\* alone, when its full test succeeded; tryPush never waits on m_read_index
C19_FalseResult ==
    /\ [](\A p \in Producers : ppc[p] \in {"p_wait", "p_sleep"} => pl[p].wait)
    /\ [][\A p \in Producers : PushReturns(p, FALSE) =>
            \/ MpscCancelled(mp_write_index', mp_read_max_index', mp_read_index')
            \/ ~pl[p].wait /\ ObservedFull(p)]_vars
    /\ [][\A p \in Producers :
            ((\E wait \in BOOLEAN : PushCommon(p, wait)) /\ ppc'[p] = "idle") =>
            (0 > mp_write_index /\ pret'[p] = FALSE)]_vars

\* when a push / tryPush returns true its element is in the cell it reserved
\* and that cell is among the published cells the consumer has not yet released
C19_TrueResult ==
    [][\A p \in Producers : PushReturns(p, TRUE) =>
        /\ mp_buffer'[pl[p].write_index] = Data(p)
        /\ pl[p].write_index \in CyclicRange(mp_read_index', mp_read_max_index')]_vars

\* C19: a blocking push returns false only if the ring has been cancelled;
\* tryPush never sleeps on m_read_index and returns false only if it observed
\* the ring full or cancelled; a true result means that the element is stored
\* and published.
C19_PushResult == C19_FalseResult /\ C19_TrueResult

\* the step is the return of a peek / tryPeek with a slice
PeekReturnsSlice == qpc = "k_loop" /\ qpc' = "k_hold"

\* the cells of the slice that the returning peek hands out
SliceCells == mp_read_index .. (mp_read_index + qret' - 1)

\* cell i holds an element whose publish CAS is done and which no commitPop has released
PublishedUnconsumed(i) ==
    /\ mp_buffer[i] \in RangeOf(published)
    /\ mp_buffer[i] \notin RangeOf(delivered)

\* the slice of a peek(max) / tryPeek(max) that returns n > 0: 1 <= n <= max, it
\* starts at m_read_index and does not run over the end of the buffer
C20_SliceBounds ==
    [][PeekReturnsSlice =>
        /\ 1 <= qret' /\ qret' <= ql.num
        /\ m_read_index_expected' = mp_read_index
        /\ mp_read_index + qret' <= max_size]_vars

\* every cell of the slice holds a published element that is not yet consumed
C20_SlicePublished ==
    [][PeekReturnsSlice => \A i \in SliceCells : PublishedUnconsumed(i)]_vars

\* tryPeek on an empty ring returns 0 at once; it never waits on m_read_max_index
C20_TryPeekEmpty ==
    /\ [](qpc \in {"k_wait", "k_sleep"} => ql.wait)
    /\ [][(PeekLoop /\ ~ql.wait /\ mp_read_index = mp_read_max_index) =>
            (qpc' = "idle" /\ qret' = 0)]_vars

\* C20: when peek(max) / tryPeek(max) with max >= 1 returns n > 0, then
\* 1 <= n <= max, the slice starts at m_read_index, m_read_index + n <= max_size,
\* and all n cells are published and not yet consumed; tryPeek on an empty ring
\* returns 0 without sleeping.
C20_PeekContiguity == C20_SliceBounds /\ C20_SlicePublished /\ C20_TryPeekEmpty

\* ==================================================== MPSC: commitPop
\* the step is a commitPop whose CAS on m_read_index succeeds
CommitPopStores == qpc = "k_hold" /\ qpc' = "k_notify"

Forward(a, b) == (b - a + max_size) % max_size

\* C22: in every state without a sentinel the three indices are cells of the
\* buffer, and going forward from m_read_index one reaches m_read_max_index no
\* later than m_write_index.
C22_IndexOrder ==
    ~MpscCancelled(mp_write_index, mp_read_max_index, mp_read_index) =>
        /\ mp_write_index \in Cells
        /\ mp_read_max_index \in Cells
        /\ mp_read_index \in Cells
        /\ Forward(mp_read_index, mp_read_max_index) <= Forward(mp_read_index, mp_write_index)

\* the cells reserved by a producer and not yet released by a commitPop
ReservedCells == Len(reserved) - Len(delivered)

\* the step is a reservation CAS of producer p that succeeds
Reserves(p) == ppc[p] = "p_cas" /\ ppc'[p] = "p_store"

\* C23: in every state without a sentinel at most max_size - 1 cells are
\* reserved and not yet released, and m_write_index = m_read_index only when
\* there is none; no reservation CAS succeeds on a ring that is full at that
\* instant, whatever the producer had loaded.
C23_ReservedEmptyCell ==
    /\ [](~MpscCancelled(mp_write_index, mp_read_max_index, mp_read_index) =>
            /\ ReservedCells <= max_size - 1
            /\ (mp_write_index = mp_read_index => ReservedCells = 0))
    /\ [][\A p \in Producers : Reserves(p) =>
            (mp_write_index + 1) % max_size # mp_read_index]_vars

\* ============================================== both rings: sticky cancel
\* C11: once an index atomic of either ring holds the negative cancel sentinel,
\* no step of any thread changes it again (a commit or publish CAS in flight,
\* a flip, a second cancel()); a cancel() called after one has returned takes
\* no CAS and never loops: it only loads each atomic once and returns.
C11_StickyCancel ==
    /\ [][/\ (IsNegative64(m_write_ctx) => m_write_ctx' = m_write_ctx)
          /\ (0 > m_read_index => m_read_index' = m_read_index)
          /\ (0 > mp_write_index => mp_write_index' = mp_write_index)
          /\ (0 > mp_read_max_index => mp_read_max_index' = mp_read_max_index)
          /\ (0 > mp_read_index => mp_read_index' = mp_read_index)]_vars
    /\ [](cancelReturned => cpc \in {"idle", "c2_load"})
    /\ [](mcancelReturned => kpc \in {"idle", "k2_load", "k3_load"})

\* a commit whose CAS found the sentinel has failed (the region is still stashed),
\* cancel() has returned and a second cancel() is past its first load
C11_Witness ==
    /\ cancelReturned
    /\ cpc = "c2_load"
    /\ wpc = "idle"
    /\ m_write_im.avail >= 1
    /\ wret = Ret("moveWritePtr", NULL, -1)
    /\ IsNegative64(m_write_ctx)
    /\ 0 > m_read_index

\* ================================================ MPSC: unique reservation
\* producer p is past its reservation CAS and has not completed its publish CAS
InFlight(p) == ppc[p] \in {"p_store", "p_pub"}

\* no two producers in flight hold the same cell
C39_DistinctCells ==
    \A p, q \in Producers :
        (p # q /\ InFlight(p) /\ InFlight(q)) => pl[p].write_index # pl[q].write_index

\* no producer in flight holds a cell that is published and not yet released
C39_NotPublishedCell ==
    \A p \in Producers :
        (InFlight(p) /\ ~MpscCancelled(mp_write_index, mp_read_max_index, mp_read_index)) =>
            pl[p].write_index \notin UnconsumedCells

\* C39: at no time do two producers that are past the reservation CAS and
\* have not completed the publish CAS hold the same cell, and no producer
\* holds a reservation for a cell that is published and not yet released by
\* the consumer, whatever the delay between a producer's load of
\* m_write_index and its CAS.
C39_UniqueReservation == C39_DistinctCells /\ C39_NotPublishedCell

====
